---- MODULE Spec2Model ----
(***************************************************************************)
(* State-machine model of the md-python client: experiment creation with   *)
(* local-file upload (Experiments.create and its helpers), the stand-alone *)
(* upload engine (Uploads), the two polling loops (wait_until_complete of  *)
(* Experiments and of Datasets), the one-request operations of both        *)
(* resources, Datasets.find_initial_dataset and Health.check.              *)
(*                                                                         *)
(* One call is modelled per behaviour.  Every action is the piece of the   *)
(* handler that runs up to and including the next HTTP exchange; the       *)
(* server's answer to that exchange is chosen with \E.                     *)
(***************************************************************************)
EXTENDS Integers, Sequences, FiniteSets, TLC

(***************************************************************************)
(* Bounds of the model.                                                    *)
(***************************************************************************)
\* longest `uploads` list the server answers with
MaxUploads == 2
\* largest timeout_s a polling call is given
MaxTimeout == 3
\* longest dataset listing the server answers with
MaxDatasets == 2
\* most data rows of a sample metadata table
MaxRows == 4
\* most data rows of an experiment design table
MaxDesignRows == 1
\* most header cells of an experiment design table
MaxHeader == 4

(***************************************************************************)
(* Python values.                                                          *)
(***************************************************************************)
\* Python's None where a string is expected
None == "<None>"
\* Python's None as experiment.filenames (Optional[List[str]])
NoFilenames == <<None>>
\* Python's None inside a list of file sizes
NoneSize == 0 - 1
\* os.path.exists(path) is False
Missing == 0 - 2
\* a key that a dict does not hold
Absent == "<absent>"

\* truth value of an Optional[str]
Truthy(s) == s # None /\ s # ""
\* truth value of an Optional[List[str]]
TruthyList(l) == l # NoFilenames /\ l # <<>>

(***************************************************************************)
(* Input domains.                                                          *)
(***************************************************************************)
MultipartThreshold == 31457280

FileNames == {"a.raw", "b.raw"}
FileSizes == {2, MultipartThreshold}
FileSystems == [FileNames -> FileSizes \cup {Missing}]

FileLocations == {None, "", "/data"}
Buckets == {None, "bucket"}
FilenameLists == {NoFilenames, <<>>, <<"a.raw">>, <<"a.raw", "b.raw">>}

\* the `parts` lists of multipart descriptors, as lists of part numbers:
\* empty, 1-based and out of order, and numbered from 0
PartLists == {<<>>, <<2, 1>>, <<3, 1, 2>>, <<0, 1, 2>>}

\* upload descriptors: `mode` may be missing from the dict
Descriptors ==
  [filename : FileNames, mode : {"single", Absent}, parts : {<<>>}]
    \cup [filename : FileNames, mode : {"multipart"}, parts : PartLists]

RECURSIVE SeqsUpTo(_, _)
SeqsUpTo(S, n) ==
  IF n = 0 THEN {<<>>}
  ELSE LET shorter == SeqsUpTo(S, n - 1)
       IN shorter \cup {Append(s, x) : s \in {t \in shorter : Len(t) = n - 1}, x \in S}

UploadLists == SeqsUpTo(Descriptors, MaxUploads)

\* status codes the server answers with
CreateStatuses == {200, 201, 202, 400}
PutStatuses == {200, 204, 403}
CompleteStatuses == {200, 204, 500}
WorkflowStatuses == {200, 500}

\* response.text of an answer with the given status
ResponseText(status) ==
  IF status < 300 THEN "OK"
  ELSE IF status < 500 THEN "Bad Request" ELSE "Server Error"

\* the id the server assigns
ServerId == "exp-1"

VARIABLES
  engine,          \* what runs: "Experiments" (create), "Uploads", or the
                   \* name of another operation of the client
  exp,             \* the Experiment passed to create
  fs,              \* local files under file_location: size or Missing
  pc,              \* position of the call
  log,             \* requests sent so far, in order
  payload,         \* body of POST /experiments
  resp,            \* answer to POST /experiments
  uploads,         \* the descriptor list being processed
  idx,             \* index of the descriptor the loop is at
  todo,            \* sorted parts of the current file still to upload
  fpos,            \* read position in the current file
  chunk,           \* [num_parts, part_size, last_part_size] of the current file
  uploaded_parts,  \* uploaded_parts of the current multipart file
  last_status,     \* status code of the most recent answer, 0 before any
  result,          \* what the call returned or raised
  now,             \* time.monotonic()
  end,             \* `end` of wait_until_complete
  last,            \* `last` of wait_until_complete
  sleeps,          \* calls of time.sleep made so far
  poll_s,          \* argument poll_s
  timeout_s,       \* argument timeout_s
  dds,             \* the listing the most recent list_by_experiment returned
  experiment,      \* the Experiment the most recent get_by_id returned
  response,        \* what Health.check got for its request
  client,          \* the MDClient the call is made on: base_url, api_token
  peer,            \* a second call running on the same client
  args             \* the arguments of a call that sends nothing by itself

\* the variables of the operations other than create and upload
pollVars ==
  <<now, end, last, sleeps, poll_s, timeout_s, dds, experiment, response>>

vars == <<engine, exp, fs, pc, log, payload, resp, uploads, idx, todo, fpos,
          chunk, uploaded_parts, last_status, result, pollVars, client, peer,
          args>>

(***************************************************************************)
(* Results and log entries.                                                *)
(***************************************************************************)
NoResult ==
  [kind |-> "none", value |-> "", error |-> "", status |-> 0, text |-> "",
   sizes |-> <<>>, flag |-> FALSE, record |-> <<>>]
Returned(v) == [NoResult EXCEPT !.kind = "returned", !.value = v]
\* an exception of the given type; status and text are what its message embeds
Raised(type, status, text) ==
  [NoResult EXCEPT !.kind = "raised", !.error = type, !.status = status, !.text = text]

Request(op, id, file, part, size, session) ==
  [op |-> op, id |-> id, file |-> file, part |-> part, size |-> size,
   session |-> session]
PostExperiments == Request("POST /experiments", "", "", NoneSize, 0, "")
PutFile(file, size) == Request("PUT", "", file, NoneSize, size, "")
PutPart(file, part, size) == Request("PUT part", "", file, part, size, "")
PostComplete(id, file, session) ==
  Request("POST /experiments/{id}/uploads/complete", id, file, NoneSize, 0, session)
PostStartWorkflow(id) ==
  Request("POST /experiments/{id}/start_workflow", id, "", NoneSize, 0, "")

NoPayload ==
  [keys |-> {}, file_location |-> Absent, filenames |-> NoFilenames,
   file_sizes |-> <<>>, s3_bucket |-> Absent]
NoResponse == [status |-> 0, has_uploads |-> FALSE, uploads |-> <<>>, id |-> ""]
NoChunk == [num_parts |-> 0, part_size |-> 0, last_part_size |-> 0]
\* no Experiment has been fetched
NoExperimentFetched == [id |-> "", name |-> "", status |-> None]

\* Health.check has made no request
NoHealthResponse == [transport |-> "none", status |-> 0, body |-> <<>>]

\* MDClient.__init__: base_url and api_token
TheClient == [base_url |-> "https://api", api_token |-> "token"]

\* mutant: a request rebinds the client's base_url
ClientAfterRequest_Rebinds(c) == [c EXCEPT !.base_url = ""]

\* _get_headers and _make_request read self.base_url and self.api_token and
\* assign no attribute of the client
ClientAfterRequest(c) == c

\* the client after a step of the call: a step that sent a request went
\* through _make_request
KeepsClient == client' = IF log' # log THEN ClientAfterRequest(client) ELSE client

\* no second call runs
NoPeer ==
  [pc |-> "none", log |-> <<>>, now |-> 0, end |-> 0, last |-> None,
   poll_s |-> 0, timeout_s |-> 0, last_status |-> 0, result |-> NoResult]

\* the call takes its arguments from the other variables
NoArgs == <<>>

\* one call on its own
Alone ==
  /\ client = TheClient
  /\ peer = NoPeer
  /\ args = NoArgs

\* a call that does not poll: the polling variables at rest
NoPolling ==
  /\ Alone
  /\ response = NoHealthResponse
  /\ now = 0
  /\ end = 0
  /\ last = None
  /\ sleeps = 0
  /\ poll_s = 0
  /\ timeout_s = 0
  /\ dds = <<>>
  /\ experiment = NoExperimentFetched

\* upload["upload_session_id"] of the descriptor the server issued for a file
UploadSessionId(d) == IF d.filename = "a.raw" THEN "session-a" ELSE "session-b"

(***************************************************************************)
(* Experiments: pure helpers.                                              *)
(***************************************************************************)
\* mutant: the filenames check is missing
ValidateCreateExperiment_NoFilenamesCheck(e) ==
  IF ~Truthy(e.file_location) /\ ~Truthy(e.s3_bucket)
  THEN "Either file_location or s3_bucket must be provided to create an experiment"
  ELSE "ok"

\* _validate_create_experiment: the ValueError it raises, or "ok"
ValidateCreateExperiment(e) ==
  IF ~Truthy(e.file_location) /\ ~Truthy(e.s3_bucket)
  THEN "Either file_location or s3_bucket must be provided to create an experiment"
  ELSE IF Truthy(e.file_location) /\ ~TruthyList(e.filenames)
  THEN "filenames must be provided when using file_location"
  ELSE "ok"

\* mutant: only the first filename is looked for
FirstMissing_OnlyFirst(filenames, fsys, i) ==
  IF filenames # <<>> /\ fsys[filenames[1]] = Missing THEN 1 ELSE 0

\* the first filename of the list that does not exist, 0 if all exist
RECURSIVE FirstMissing(_, _, _)
FirstMissing(filenames, fsys, i) ==
  IF i > Len(filenames) THEN 0
  ELSE IF fsys[filenames[i]] = Missing THEN i
  ELSE FirstMissing(filenames, fsys, i + 1)

\* Experiments._calculate_file_sizes, when no file is missing
CalculateFileSizes(filenames, fsys) ==
  [i \in 1..Len(filenames) |-> fsys[filenames[i]]]

\* mutant: every 2xx answer is taken as success
CreateSucceeded_Any2xx(status) == status >= 200 /\ status < 300

\* response.status_code == 200 or response.status_code == 201
CreateSucceeded(status) == status = 200 \/ status = 201

\* upload.get("mode", "single")
ModeOf(d) == IF d.mode = Absent THEN "single" ELSE d.mode

\* mutant: only a 5xx answer counts as a failed PUT
PutFailed_Only5xx(status) == status >= 500

\* upload_response.status_code not in [200, 204]
PutFailed(status) == status \notin {200, 204}

\* response.status_code != 200 in _complete_multipart_upload
CompleteFailed(status) == status # 200

\* sorted(parts, key=lambda x: x["part_number"]): a stable insertion sort
RECURSIVE InsertPart(_, _)
InsertPart(sorted, p) ==
  IF sorted = <<>> THEN <<p>>
  ELSE IF p < Head(sorted) THEN <<p>> \o sorted
  ELSE <<Head(sorted)>> \o InsertPart(Tail(sorted), p)

\* mutant: the parts are taken in the order given
SortedParts_Unsorted(parts) == parts

\* mutant: the sort loses its first element
SortedParts_DropsFirst(parts) == Tail(parts)

RECURSIVE SortedParts(_)
SortedParts(parts) ==
  IF parts = <<>> THEN <<>>
  ELSE InsertPart(SortedParts(SubSeq(parts, 1, Len(parts) - 1)), parts[Len(parts)])

\* mutant: the last part is sized like the others
ExperimentsChunking_NoRemainder(file_size, num_parts) ==
  [num_parts |-> num_parts, part_size |-> file_size \div num_parts,
   last_part_size |-> file_size \div num_parts]

\* Experiments._upload_multipart_file, lines 98-101
ExperimentsChunking(file_size, num_parts) ==
  LET part_size == file_size \div num_parts
  IN [num_parts |-> num_parts, part_size |-> part_size,
      last_part_size |-> file_size - (part_size * (num_parts - 1))]

\* Uploads.upload_multipart_file, lines 130-133 and 141-142
UploadsChunking(file_size, num_parts) ==
  LET base_chunk_size == file_size \div num_parts
      remainder == file_size % num_parts
  IN [num_parts |-> num_parts, part_size |-> base_chunk_size,
      last_part_size |-> base_chunk_size + remainder]

\* the chunk_size requested for a part
ChunkSize(c, part_number) ==
  IF part_number = c.num_parts THEN c.last_part_size ELSE c.part_size

\* len(f.read(n)) at position pos of a file of the given size
ReadLen(size, pos, n) == IF n < size - pos THEN n ELSE size - pos

(***************************************************************************)
(* Uploads: pure helpers.                                                  *)
(***************************************************************************)
\* mutant: the threshold itself still selects single
should_use_multipart_Strict(file_size) == file_size > MultipartThreshold

\* Uploads.should_use_multipart
should_use_multipart(file_size) == file_size >= MultipartThreshold

\* Uploads.file_sizes_for_api, when no file is missing
FileSizesForApi(filenames, fsys) ==
  [i \in 1..Len(filenames) |->
     IF should_use_multipart(fsys[filenames[i]])
     THEN fsys[filenames[i]] ELSE NoneSize]

(***************************************************************************)
(* Experiments.create                                                      *)
(***************************************************************************)
Experiments == [file_location : FileLocations, s3_bucket : Buckets,
                filenames : FilenameLists]

\* what the server may answer to POST /experiments
CreateResponses ==
  [status : CreateStatuses, has_uploads : {FALSE}, uploads : {<<>>}, id : {ServerId}]
    \cup [status : CreateStatuses, has_uploads : {TRUE}, uploads : UploadLists,
          id : {ServerId}]

Init ==
  /\ engine = "Experiments"
  /\ exp \in Experiments
  /\ fs \in FileSystems
  /\ pc = "idle"
  /\ log = <<>>
  /\ payload = NoPayload
  /\ resp = NoResponse
  /\ uploads = <<>>
  /\ idx = 0
  /\ todo = <<>>
  /\ fpos = 0
  /\ chunk = NoChunk
  /\ uploaded_parts = <<>>
  /\ last_status = 0
  /\ result = NoResult
  /\ NoPolling

\* the call ends: it returned or raised r
Finish(r) ==
  /\ pc' = "done"
  /\ result' = r

\* mutant: a bucket, when given, is sent in place of the local files
ExperimentPayload_BucketFirst(e, fsys) ==
  IF Truthy(e.file_location) /\ ~Truthy(e.s3_bucket)
  THEN IF TruthyList(e.filenames)
       THEN [keys |-> {"filenames", "file_location", "file_sizes"},
             file_location |-> e.file_location, filenames |-> e.filenames,
             file_sizes |-> CalculateFileSizes(e.filenames, fsys),
             s3_bucket |-> Absent]
       ELSE [keys |-> {"filenames", "file_location"},
             file_location |-> e.file_location, filenames |-> e.filenames,
             file_sizes |-> <<>>, s3_bucket |-> Absent]
  ELSE [keys |-> {"filenames", "s3_bucket", "s3_prefix"},
        file_location |-> Absent, filenames |-> e.filenames,
        file_sizes |-> <<>>, s3_bucket |-> e.s3_bucket]

\* lines 184-212 of create: the experiment payload
ExperimentPayload(e, fsys) ==
  IF Truthy(e.file_location)
  THEN IF TruthyList(e.filenames)
       THEN [keys |-> {"filenames", "file_location", "file_sizes"},
             file_location |-> e.file_location, filenames |-> e.filenames,
             file_sizes |-> CalculateFileSizes(e.filenames, fsys),
             s3_bucket |-> Absent]
       ELSE [keys |-> {"filenames", "file_location"},
             file_location |-> e.file_location, filenames |-> e.filenames,
             file_sizes |-> <<>>, s3_bucket |-> Absent]
  ELSE [keys |-> {"filenames", "s3_bucket", "s3_prefix"},
        file_location |-> Absent, filenames |-> e.filenames,
        file_sizes |-> <<>>, s3_bucket |-> e.s3_bucket]

\* mutant: the branch forgets the file_location test
UploadsRequested_NoLocationTest(r, e) == r.has_uploads

\* line 225 of create: "uploads" in response_data and experiment.file_location
UploadsRequested(r, e) == r.has_uploads /\ Truthy(e.file_location)

\* mutant: a start_workflow answer other than 200 makes create raise
AfterStartWorkflow_ChecksStatus(status, experiment_id) ==
  IF status = 200 THEN Returned(experiment_id)
  ELSE Raised("Exception: Failed to start workflow", status, ResponseText(status))

\* lines 225-234 of create: what create does with the start_workflow answer
AfterStartWorkflow(status, experiment_id) == Returned(experiment_id)

\* create up to the answer to POST /experiments and the branch on it
Create ==
  /\ UNCHANGED pollVars
  /\ pc = "idle"
  /\ engine = "Experiments"
  /\ UNCHANGED <<engine, exp, fs, todo, fpos, chunk, uploaded_parts>>
  /\ IF ValidateCreateExperiment(exp) # "ok"
     THEN /\ Finish(Raised("ValueError", 0, ValidateCreateExperiment(exp)))
          /\ UNCHANGED <<log, payload, resp, uploads, idx, last_status>>
     ELSE IF /\ Truthy(exp.file_location)
             /\ TruthyList(exp.filenames)
             /\ FirstMissing(exp.filenames, fs, 1) # 0
     THEN /\ Finish(Raised("FileNotFoundError", 0,
                           exp.filenames[FirstMissing(exp.filenames, fs, 1)]))
          /\ UNCHANGED <<log, payload, resp, uploads, idx, last_status>>
     ELSE \E r \in CreateResponses :
            /\ payload' = ExperimentPayload(exp, fs)
            /\ log' = Append(log, PostExperiments)
            /\ resp' = r
            /\ last_status' = r.status
            /\ IF CreateSucceeded(r.status)
               THEN IF UploadsRequested(r, exp)
                    THEN /\ uploads' = r.uploads
                         /\ idx' = 1
                         /\ pc' = "upload_files"
                         /\ UNCHANGED result
                    ELSE /\ Finish(Returned(r.id))
                         /\ UNCHANGED <<uploads, idx>>
               ELSE /\ Finish(Raised("Exception: Failed to create experiment",
                                     r.status, ResponseText(r.status)))
                    /\ UNCHANGED <<uploads, idx>>
  /\ KeepsClient
  /\ UNCHANGED <<peer, args>>

(***************************************************************************)
(* _upload_files / Uploads.upload_files: the loop over the descriptors     *)
(***************************************************************************)
\* the chunking the running implementation computes
Chunking(file_size, num_parts) ==
  IF engine = "Uploads"
  THEN UploadsChunking(file_size, num_parts)
  ELSE ExperimentsChunking(file_size, num_parts)

\* the experiment_id the loop was given
ExperimentId == IF engine = "Uploads" THEN ServerId ELSE resp.id

\* one iteration of `for upload in uploads` up to its first exchange: the
\* existence check, then the single PUT or the set-up of the multipart loop
UploadFile ==
  /\ UNCHANGED pollVars
  /\ pc = "upload_files"
  /\ idx <= Len(uploads)
  /\ UNCHANGED <<engine, exp, fs, payload, resp, uploads, uploaded_parts>>
  /\ LET upload == uploads[idx]
         filename == upload.filename
     IN IF fs[filename] = Missing
        THEN /\ Finish(Raised("FileNotFoundError", 0, filename))
             /\ UNCHANGED <<log, idx, todo, fpos, chunk, last_status>>
        ELSE IF ModeOf(upload) = "multipart"
        THEN IF Len(upload.parts) = 0
             THEN \* file_size // num_parts
                  /\ Finish(Raised("ZeroDivisionError", 0, filename))
                  /\ UNCHANGED <<log, idx, todo, fpos, chunk, last_status>>
             ELSE /\ chunk' = Chunking(fs[filename], Len(upload.parts))
                  /\ todo' = SortedParts(upload.parts)
                  /\ fpos' = 0
                  /\ pc' = "upload_parts"
                  /\ UNCHANGED <<log, idx, result, last_status>>
        ELSE \E status \in PutStatuses :
               /\ log' = Append(log, PutFile(filename, fs[filename]))
               /\ last_status' = status
               /\ UNCHANGED <<todo, fpos, chunk>>
               /\ IF PutFailed(status)
                  THEN /\ Finish(Raised("Exception: Failed to upload", status,
                                        ResponseText(status)))
                       /\ UNCHANGED idx
                  ELSE /\ idx' = idx + 1
                       /\ UNCHANGED <<pc, result>>
  /\ KeepsClient
  /\ UNCHANGED <<peer, args>>

\* the ETag header of a part answer, and .strip('"') of it
ETagHeader(part_number) == <<"\"", "etag", "\"">>
StripQuotes(h) ==
  LET start == IF Len(h) > 0 /\ h[1] = "\"" THEN 2 ELSE 1
      stop == IF Len(h) >= start /\ h[Len(h)] = "\"" THEN Len(h) - 1 ELSE Len(h)
  IN SubSeq(h, start, stop)

\* one iteration of the loop over the sorted parts
UploadPart ==
  /\ UNCHANGED pollVars
  /\ pc = "upload_parts"
  /\ todo # <<>>
  /\ UNCHANGED <<engine, exp, fs, payload, resp, uploads, idx, chunk>>
  /\ LET filename == uploads[idx].filename
         part_number == Head(todo)
         chunk_data == ReadLen(fs[filename], fpos, ChunkSize(chunk, part_number))
     IN \E status \in PutStatuses :
          /\ log' = Append(log, PutPart(filename, part_number, chunk_data))
          /\ fpos' = fpos + chunk_data
          /\ last_status' = status
          /\ IF PutFailed(status)
             THEN /\ Finish(Raised("Exception: Failed to upload part", status,
                                   ResponseText(status)))
                  /\ UNCHANGED <<todo, uploaded_parts>>
             ELSE /\ uploaded_parts' =
                       Append(uploaded_parts,
                              [part_number |-> part_number,
                               etag |-> StripQuotes(ETagHeader(part_number))])
                  /\ todo' = Tail(todo)
                  /\ pc' = IF Tail(todo) = <<>> THEN "complete" ELSE pc
                  /\ UNCHANGED result
  /\ KeepsClient
  /\ UNCHANGED <<peer, args>>

\* _complete_multipart_upload, then the loop moves to the next descriptor
CompleteMultipartUpload ==
  /\ UNCHANGED pollVars
  /\ pc = "complete"
  /\ UNCHANGED <<engine, exp, fs, payload, resp, uploads, todo, fpos, chunk>>
  /\ \E status \in CompleteStatuses :
       /\ last_status' = status
       /\ log' = Append(log, PostComplete(ExperimentId, uploads[idx].filename,
                                          UploadSessionId(uploads[idx])))
       /\ IF CompleteFailed(status)
          THEN /\ Finish(Raised("Exception: Failed to complete multipart upload",
                                status, ResponseText(status)))
               /\ UNCHANGED <<idx, uploaded_parts>>
          ELSE /\ idx' = idx + 1
               /\ uploaded_parts' = <<>>
               /\ pc' = "upload_files"
               /\ UNCHANGED result
  /\ KeepsClient
  /\ UNCHANGED <<peer, args>>

\* lines 227-234 of create: the loop is over, start the workflow and return
StartWorkflow ==
  /\ UNCHANGED pollVars
  /\ pc = "upload_files"
  /\ engine = "Experiments"
  /\ idx > Len(uploads)
  /\ UNCHANGED <<engine, exp, fs, payload, resp, uploads, idx, todo, fpos, chunk,
                 uploaded_parts>>
  /\ \E status \in WorkflowStatuses :
       /\ log' = Append(log, PostStartWorkflow(resp.id))
       /\ last_status' = status
       /\ Finish(AfterStartWorkflow(status, resp.id))
  /\ KeepsClient
  /\ UNCHANGED <<peer, args>>

Next ==
  \/ Create
  \/ UploadFile
  \/ UploadPart
  \/ CompleteMultipartUpload
  \/ StartWorkflow

Spec == Init /\ [][Next]_vars

(***************************************************************************)
(* Uploads: the stand-alone upload engine                                  *)
(***************************************************************************)
\* sizes should_use_multipart is called with
ProbeSizes ==
  {0, 1, MultipartThreshold - 1, MultipartThreshold, MultipartThreshold + 1,
   2 * MultipartThreshold}

\* no Experiment takes part in a call of the upload engine
NoExperiment == [file_location |-> "/data", s3_bucket |-> None, filenames |-> <<>>]

InitUploads ==
  /\ engine = "Uploads"
  /\ exp = NoExperiment
  /\ fs \in FileSystems
  /\ pc = "idle"
  /\ log = <<>>
  /\ payload = NoPayload
  /\ resp = NoResponse
  /\ uploads = <<>>
  /\ idx = 0
  /\ todo = <<>>
  /\ fpos = 0
  /\ chunk = NoChunk
  /\ uploaded_parts = <<>>
  /\ last_status = 0
  /\ result = NoResult
  /\ NoPolling

\* a call of Uploads.should_use_multipart(file_size)
ShouldUseMultipart ==
  /\ UNCHANGED pollVars
  /\ pc = "idle"
  /\ engine = "Uploads"
  /\ \E file_size \in ProbeSizes :
       Finish([Returned("should_use_multipart") EXCEPT
                 !.sizes = <<file_size>>,
                 !.flag = should_use_multipart(file_size)])
  /\ UNCHANGED <<engine, exp, fs, log, payload, resp, uploads, idx, todo, fpos,
                 chunk, uploaded_parts, last_status>>
  /\ KeepsClient
  /\ UNCHANGED <<peer, args>>

\* a call of Uploads.file_sizes_for_api(filenames, file_location)
FileSizesForApiCall ==
  /\ UNCHANGED pollVars
  /\ pc = "idle"
  /\ engine = "Uploads"
  /\ \E filenames \in FilenameLists \ {NoFilenames} :
       /\ exp' = [exp EXCEPT !.filenames = filenames]
       /\ IF FirstMissing(filenames, fs, 1) # 0
          THEN Finish(Raised("FileNotFoundError", 0,
                             filenames[FirstMissing(filenames, fs, 1)]))
          ELSE Finish([Returned("file_sizes_for_api") EXCEPT
                         !.sizes = FileSizesForApi(filenames, fs)])
  /\ UNCHANGED <<engine, fs, log, payload, resp, uploads, idx, todo, fpos,
                 chunk, uploaded_parts, last_status>>
  /\ KeepsClient
  /\ UNCHANGED <<peer, args>>

\* a call of Uploads.upload_files(uploads, file_location, experiment_id)
UploadFilesCall ==
  /\ UNCHANGED pollVars
  /\ pc = "idle"
  /\ engine = "Uploads"
  /\ \E ds \in UploadLists :
       /\ uploads' = ds
       /\ idx' = 1
       /\ pc' = "upload_files"
  /\ UNCHANGED <<engine, exp, fs, log, payload, resp, todo, fpos, chunk,
                 uploaded_parts, last_status, result>>
  /\ KeepsClient
  /\ UNCHANGED <<peer, args>>

\* Uploads.upload_files returns when its loop is over
UploadFilesReturn ==
  /\ UNCHANGED pollVars
  /\ pc = "upload_files"
  /\ engine = "Uploads"
  /\ idx > Len(uploads)
  /\ Finish(Returned("upload_files"))
  /\ UNCHANGED <<engine, exp, fs, log, payload, resp, uploads, idx, todo, fpos,
                 chunk, uploaded_parts, last_status>>
  /\ KeepsClient
  /\ UNCHANGED <<peer, args>>

NextUploads ==
  \/ ShouldUseMultipart
  \/ FileSizesForApiCall
  \/ UploadFilesCall
  \/ UploadFile
  \/ UploadPart
  \/ CompleteMultipartUpload
  \/ UploadFilesReturn

SpecUploads == InitUploads /\ [][NextUploads]_vars

\* both implementations of the upload loop
InitEngines == Init \/ InitUploads
NextEngines == Next \/ NextUploads
SpecEngines == InitEngines /\ [][NextEngines]_vars

(***************************************************************************)
(* Polling: Experiments.wait_until_complete, Datasets.wait_until_complete  *)
(***************************************************************************)
\* the variables of create and of the upload loop
uploadVars == <<exp, fs, payload, resp, uploads, idx, todo, fpos, chunk,
                uploaded_parts>>

\* no local file takes part in a call that uploads nothing
NoFiles == [f \in FileNames |-> Missing]

\* a call that uploads nothing: the variables of create and upload at rest
NoUpload ==
  /\ exp = NoExperiment
  /\ fs = NoFiles
  /\ payload = NoPayload
  /\ resp = NoResponse
  /\ uploads = <<>>
  /\ idx = 0
  /\ todo = <<>>
  /\ fpos = 0
  /\ chunk = NoChunk
  /\ uploaded_parts = <<>>

\* status / state strings the server reports; None: the key is missing
Statuses ==
  {None, "", "RUNNING", "COMPLETED", "completed", "FAILED", "Failed", "ERROR",
   "CANCELLED"}

\* str.upper() on the strings above
Upper(s) ==
  CASE s = "completed" -> "COMPLETED"
    [] s = "Failed" -> "FAILED"
    [] OTHER -> s

\* mutant: CANCELLED is not taken as terminal
ExperimentStatusClass_CancelledWaits(status) ==
  IF ~Truthy(status) THEN "waiting"
  ELSE IF Upper(status) \in {"COMPLETED"} THEN "success"
  ELSE IF Upper(status) \in {"FAILED", "ERROR"} THEN "failure"
  ELSE "waiting"

\* lines 313-322 of Experiments.wait_until_complete: what a status leads to
ExperimentStatusClass(status) ==
  IF ~Truthy(status) THEN "waiting"
  ELSE IF Upper(status) \in {"COMPLETED"} THEN "success"
  ELSE IF Upper(status) \in {"FAILED", "ERROR", "CANCELLED"} THEN "failure"
  ELSE "waiting"

\* lines 154-157 of Datasets.wait_until_complete: what a state leads to
DatasetStateClass(state) ==
  IF state \in {"COMPLETED"} THEN "success"
  ELSE IF state \in {"FAILED", "ERROR", "CANCELLED"} THEN "failure"
  ELSE "waiting"

\* the ids of the datasets of the experiment; the call waits for TargetId
TargetId == "ds-1"
OtherId == "ds-2"

\* mutant: the first dataset of the listing is taken, whatever its id
FindDataset_AnyId(listing, dataset_id) ==
  IF listing = <<>> THEN <<>> ELSE <<Head(listing)>>

\* next((d for d in dds if str(d.id) == dataset_id), None): <<d>> or <<>>
RECURSIVE FindDataset(_, _)
FindDataset(listing, dataset_id) ==
  IF listing = <<>> THEN <<>>
  ELSE IF Head(listing).id = dataset_id THEN <<Head(listing)>>
  ELSE FindDataset(Tail(listing), dataset_id)

\* lines 148-152 and 159-160: `last` after a poll that found ds (or nothing)
LastAfterPoll(ds, l) == IF ds # <<>> THEN ds[1].state ELSE l

\* mutant: the timeout error does not report the last status
TimeoutResult_NoStatus(l) == Raised("TimeoutError", 0, None)

\* the TimeoutError raised after the loop; its message embeds `last`
TimeoutResult(l) == Raised("TimeoutError", 0, l)

\* a call that returned the record r
ReturnedRecord(r) == [Returned(r.id) EXCEPT !.record = <<r>>]

\* lines 313-322 of Experiments.wait_until_complete: what the iteration
\* returns or raises for the experiment fetched, NoResult if it goes on
ExperimentsPollResult(e) ==
  IF ExperimentStatusClass(e.status) = "success" THEN ReturnedRecord(e)
  ELSE IF ExperimentStatusClass(e.status) = "failure"
  THEN Raised("Exception: Experiment failed", 0, e.status)
  ELSE NoResult

\* mutant: a dataset missing from the listing counts as failed
DatasetsPollResult_AbsentFails(ds) ==
  IF ds = <<>> THEN Raised("Exception: Dataset failed", 0, None)
  ELSE IF DatasetStateClass(ds[1].state) = "success" THEN ReturnedRecord(ds[1])
  ELSE IF DatasetStateClass(ds[1].state) = "failure"
  THEN Raised("Exception: Dataset failed", 0, ds[1].state)
  ELSE NoResult

\* lines 148-161 of Datasets.wait_until_complete: what the iteration returns
\* or raises for the dataset found (or not found), NoResult if it goes on
DatasetsPollResult(ds) ==
  IF ds = <<>> THEN NoResult
  ELSE IF DatasetStateClass(ds[1].state) = "success" THEN ReturnedRecord(ds[1])
  ELSE IF DatasetStateClass(ds[1].state) = "failure"
  THEN Raised("Exception: Dataset failed", 0, ds[1].state)
  ELSE NoResult

\* what the server may answer to GET /experiments/{id} while a call waits
WaitExperiments == [id : {ServerId}, name : {"X"}, status : Statuses]

\* the datasets a listing may hold while a call waits
WaitDatasets ==
  [id : {TargetId}, name : {"X"}, type : {"INTENSITY"}, state : Statuses]
    \cup [id : {OtherId}, name : {"X"}, type : {"INTENSITY"},
          state : {"COMPLETED", "FAILED", "ERROR", "CANCELLED"}]
WaitListings == SeqsUpTo(WaitDatasets, MaxDatasets)

GetStatuses == {200, 404, 500}

\* mutant: a 5xx answer to a GET is not taken as a failure
GetFailed_Only4xx(status) == status # 200 /\ status < 500

\* the else branch of `if response.status_code == 200` in get_by_id and
\* list_by_experiment
GetFailed(status) == status # 200
PollIntervals == {0, 1, 2}
\* how long one fetch may take, in clock ticks
FetchTimes == {0, 1}
\* polls after which the model stops following a loop
MaxPolls == MaxTimeout + 2

GetExperiment(id) == Request("GET /experiments/{id}", id, "", NoneSize, 0, "")
ListDatasets(id) ==
  Request("GET /datasets?experiment_id={id}", id, "", NoneSize, 0, "")

WaitCalls == {"Experiments.wait_until_complete", "Datasets.wait_until_complete"}

InitWait ==
  /\ engine \in WaitCalls
  /\ NoUpload
  /\ pc = "idle"
  /\ log = <<>>
  /\ last_status = 0
  /\ result = NoResult
  /\ now = 0
  /\ end = 0
  /\ last = None
  /\ sleeps = 0
  /\ poll_s \in PollIntervals
  /\ timeout_s \in 0..MaxTimeout
  /\ dds = <<>>
  /\ experiment = NoExperimentFetched
  /\ response = NoHealthResponse
  /\ Alone

\* end = time.monotonic() + timeout_s; last = None
WaitStart ==
  /\ engine \in WaitCalls
  /\ pc = "idle"
  /\ end' = now + timeout_s
  /\ last' = None
  /\ pc' = "poll"
  /\ UNCHANGED <<engine, uploadVars, log, last_status, result, now, sleeps,
                 poll_s, timeout_s, dds, experiment, response>>
  /\ KeepsClient
  /\ UNCHANGED <<peer, args>>

\* one iteration of the loop of Experiments.wait_until_complete, up to its
\* sleep: the fetch by get_by_id and the branch on the status
ExperimentsPoll ==
  /\ engine = "Experiments.wait_until_complete"
  /\ pc = "poll"
  /\ now < end
  /\ Len(log) < MaxPolls
  /\ UNCHANGED <<engine, uploadVars, end, sleeps, poll_s, timeout_s, dds,
                 response>>
  /\ log' = Append(log, GetExperiment(ServerId))
  /\ \E dt \in FetchTimes : now' = now + dt
  /\ \/ \E status_code \in {c \in GetStatuses : GetFailed(c)} :
          /\ last_status' = status_code
          /\ Finish(Raised("Exception: Failed to get experiment",
                           status_code, ResponseText(status_code)))
          /\ UNCHANGED <<last, experiment>>
     \/ \E status_code \in {c \in GetStatuses : ~GetFailed(c)},
           e \in WaitExperiments :
          /\ last_status' = status_code
          /\ experiment' = e
          /\ last' = e.status
          /\ result' = ExperimentsPollResult(e)
          /\ pc' = IF ExperimentsPollResult(e) = NoResult THEN "sleep" ELSE "done"
  /\ KeepsClient
  /\ UNCHANGED <<peer, args>>

\* one iteration of the loop of Datasets.wait_until_complete, up to its
\* sleep: the fetch by list_by_experiment, the search and the branch
DatasetsPoll ==
  /\ engine = "Datasets.wait_until_complete"
  /\ pc = "poll"
  /\ now < end
  /\ Len(log) < MaxPolls
  /\ UNCHANGED <<engine, uploadVars, end, sleeps, poll_s, timeout_s, experiment,
                 response>>
  /\ log' = Append(log, ListDatasets(ServerId))
  /\ \E dt \in FetchTimes : now' = now + dt
  /\ \/ \E status_code \in {c \in GetStatuses : GetFailed(c)} :
          /\ last_status' = status_code
          /\ Finish(Raised("Exception: Failed to get datasets by experiment",
                           status_code, ResponseText(status_code)))
          /\ UNCHANGED <<last, dds>>
     \/ \E status_code \in {c \in GetStatuses : ~GetFailed(c)} :
          LET ds == FindDataset(dds', TargetId)
          IN /\ last_status' = status_code
             /\ dds' \in WaitListings
             /\ last' = LastAfterPoll(ds, last)
             /\ result' = DatasetsPollResult(ds)
             /\ pc' = IF DatasetsPollResult(ds) = NoResult THEN "sleep" ELSE "done"
  /\ KeepsClient
  /\ UNCHANGED <<peer, args>>

\* mutant: the clock stands still while the call sleeps
AfterSleep_ClockStands(t, interval) == t

\* time.monotonic() after time.sleep(poll_s) called at time t
AfterSleep(t, interval) == t + interval

\* time.sleep(poll_s), then back to the loop condition.  The locals `dds`
\* and `exp` of the iteration are not read again before the next fetch
\* assigns them: the model drops them here.
Sleep ==
  /\ pc = "sleep"
  /\ now' = AfterSleep(now, poll_s)
  /\ sleeps' = sleeps + 1
  /\ pc' = "poll"
  /\ dds' = <<>>
  /\ experiment' = NoExperimentFetched
  /\ UNCHANGED <<engine, uploadVars, log, last_status, result, end, last,
                 poll_s, timeout_s, response>>
  /\ KeepsClient
  /\ UNCHANGED <<peer, args>>

\* the loop condition fails: raise TimeoutError
TimedOut ==
  /\ engine \in WaitCalls
  /\ pc = "poll"
  /\ ~(now < end)
  /\ Finish(TimeoutResult(last))
  /\ UNCHANGED <<engine, uploadVars, log, last_status, pollVars>>
  /\ KeepsClient
  /\ UNCHANGED <<peer, args>>

NextWait ==
  \/ WaitStart
  \/ ExperimentsPoll
  \/ DatasetsPoll
  \/ Sleep
  \/ TimedOut

SpecWait == InitWait /\ [][NextWait]_vars

\* every fetch and every sleep returns: a step that can be taken is taken
\* the calls with a poll interval above 0
InitWaitFair == InitWait /\ poll_s > 0
SpecWaitFair == InitWaitFair /\ [][NextWait]_vars /\ WF_vars(NextWait)

(***************************************************************************)
(* The one-request operations of Experiments and Datasets                  *)
(***************************************************************************)
\* status codes the server answers a one-request operation with
CallStatuses == {200, 201, 204, 404, 500}

\* job_run_start_time is None
NoTime == 0 - 1

\* what the server may answer to GET /experiments/{id} and ?name=
LookupExperiments == [id : {ServerId}, name : {"X", "x"}, status : {"COMPLETED"}]

\* the datasets a listing may hold
LookupDatasets ==
  [id : {TargetId, OtherId}, name : {"X", "x"},
   type : {"INTENSITY", "PAIRWISE", None}, state : {"COMPLETED"},
   job_run_start_time : {NoTime, 1, 2}]
LookupListings == SeqsUpTo(LookupDatasets, MaxDatasets)

GetExperimentByName(name) ==
  Request("GET /experiments?name={name}", name, "", NoneSize, 0, "")
PutSampleMetadata(id) ==
  Request("PUT /experiments/{id}/sample_metadata", id, "", NoneSize, 0, "")
PostDatasets == Request("POST /datasets", "", "", NoneSize, 0, "")
DeleteDataset(id) == Request("DELETE /datasets/{id}", id, "", NoneSize, 0, "")
PostRetry(id) == Request("POST /datasets/{id}/retry", id, "", NoneSize, 0, "")
GetHealth == Request("GET /health", "", "", NoneSize, 0, "")

\* response.status_code == 200 in update_sample_metadata
UpdateSucceeded(status) == status = 200

\* response.status_code == 200 or response.status_code == 201 in create
DatasetCreateSucceeded(status) == status = 200 \/ status = 201

\* mutant: every 2xx answer to DELETE is taken as success
DeleteSucceeded_Any2xx(status) == status >= 200 /\ status < 300

\* response.status_code == 204 in delete
DeleteSucceeded(status) == status = 204

\* response.status_code == 200 in retry
RetrySucceeded(status) == status = 200

\* a call that returned the list l
ReturnedList(l) == [Returned("datasets") EXCEPT !.record = l]

\* an operation that makes one request and returns or raises on its answer
Answered(request, status, ok, value, failure) ==
  /\ log' = Append(log, request)
  /\ last_status' = status
  /\ Finish(IF ok THEN value ELSE Raised(failure, status, ResponseText(status)))

\* Experiments.get_by_id(experiment_id)
GetById ==
  /\ engine = "Experiments.get_by_id"
  /\ pc = "idle"
  /\ \E status \in CallStatuses, e \in LookupExperiments :
       /\ Answered(GetExperiment(ServerId), status, ~GetFailed(status),
                   ReturnedRecord(e), "Exception: Failed to get experiment")
       /\ experiment' = IF GetFailed(status) THEN experiment ELSE e
  /\ UNCHANGED <<engine, uploadVars, now, end, last, sleeps, poll_s, timeout_s,
                 dds, response>>
  /\ KeepsClient
  /\ UNCHANGED <<peer, args>>

\* Experiments.get_by_name(name)
GetByName ==
  /\ engine = "Experiments.get_by_name"
  /\ pc = "idle"
  /\ \E status \in CallStatuses, e \in LookupExperiments :
       /\ Answered(GetExperimentByName(e.name), status, ~GetFailed(status),
                   ReturnedRecord(e), "Exception: Failed to get experiment by name")
       /\ experiment' = IF GetFailed(status) THEN experiment ELSE e
  /\ UNCHANGED <<engine, uploadVars, now, end, last, sleeps, poll_s, timeout_s,
                 dds, response>>
  /\ KeepsClient
  /\ UNCHANGED <<peer, args>>

\* Experiments.update_sample_metadata(experiment_id, sample_metadata)
UpdateSampleMetadata ==
  /\ engine = "Experiments.update_sample_metadata"
  /\ pc = "idle"
  /\ \E status \in CallStatuses :
       Answered(PutSampleMetadata(ServerId), status, UpdateSucceeded(status),
                Returned("True"), "Exception: Failed to update sample metadata")
  /\ UNCHANGED <<engine, uploadVars, pollVars>>
  /\ KeepsClient
  /\ UNCHANGED <<peer, args>>

\* Datasets.create(dataset)
DatasetsCreate ==
  /\ engine = "Datasets.create"
  /\ pc = "idle"
  /\ \E status \in CallStatuses :
       Answered(PostDatasets, status, DatasetCreateSucceeded(status),
                Returned(TargetId), "Exception: Failed to create dataset")
  /\ UNCHANGED <<engine, uploadVars, pollVars>>
  /\ KeepsClient
  /\ UNCHANGED <<peer, args>>

\* Datasets.list_by_experiment(experiment_id)
ListByExperiment ==
  /\ engine = "Datasets.list_by_experiment"
  /\ pc = "idle"
  /\ \E status \in CallStatuses, listing \in LookupListings :
       /\ Answered(ListDatasets(ServerId), status, ~GetFailed(status),
                   ReturnedList(listing),
                   "Exception: Failed to get datasets by experiment")
       /\ dds' = IF GetFailed(status) THEN dds ELSE listing
  /\ UNCHANGED <<engine, uploadVars, now, end, last, sleeps, poll_s, timeout_s,
                 experiment, response>>
  /\ KeepsClient
  /\ UNCHANGED <<peer, args>>

\* Datasets.delete(dataset_id)
DatasetsDelete ==
  /\ engine = "Datasets.delete"
  /\ pc = "idle"
  /\ \E status \in CallStatuses :
       Answered(DeleteDataset(TargetId), status, DeleteSucceeded(status),
                Returned("True"), "Exception: Failed to delete dataset")
  /\ UNCHANGED <<engine, uploadVars, pollVars>>
  /\ KeepsClient
  /\ UNCHANGED <<peer, args>>

\* Datasets.retry(dataset_id)
DatasetsRetry ==
  /\ engine = "Datasets.retry"
  /\ pc = "idle"
  /\ \E status \in CallStatuses :
       Answered(PostRetry(TargetId), status, RetrySucceeded(status),
                Returned("True"), "Exception: Failed to retry dataset")
  /\ UNCHANGED <<engine, uploadVars, pollVars>>
  /\ KeepsClient
  /\ UNCHANGED <<peer, args>>

(***************************************************************************)
(* Datasets.find_initial_dataset                                           *)
(***************************************************************************)
\* getattr(d, "type", None) == "INTENSITY"
IsIntensity(d) == d.type = "INTENSITY"

\* intensity = [d for d in datasets if getattr(d, "type", None) == "INTENSITY"]
Intensity(datasets) == SelectSeq(datasets, IsIntensity)

\* by_name = [intd for intd in intensity if intd.name == experiment_name]
ByName(intensity, experiment_name) ==
  SelectSeq(intensity, LAMBDA intd : intd.name = experiment_name)

\* mutant: of several datasets with the experiment's name the first is taken
FindInitialResult_FirstOfMany(datasets, experiment_name) ==
  IF datasets = <<>>
  THEN Raised("ValueError", 0, "No datasets found for experiment")
  ELSE IF Intensity(datasets) = <<>>
  THEN Raised("ValueError", 0, "No intensity dataset found for experiment")
  ELSE LET by_name == ByName(Intensity(datasets), experiment_name)
       IN IF Len(by_name) >= 1 THEN ReturnedRecord(by_name[1])
          ELSE Raised("ValueError", 0,
                      "No initial dataset found for experiment or name has been changed")

\* lines 178-197 of find_initial_dataset: what it returns or raises
FindInitialResult(datasets, experiment_name) ==
  IF datasets = <<>>
  THEN Raised("ValueError", 0, "No datasets found for experiment")
  ELSE IF Intensity(datasets) = <<>>
  THEN Raised("ValueError", 0, "No intensity dataset found for experiment")
  ELSE LET by_name == ByName(Intensity(datasets), experiment_name)
       IN IF Len(by_name) > 1
          THEN Raised("ValueError", 0, "Multiple intensity datasets found for experiment")
          ELSE IF Len(by_name) = 1 THEN ReturnedRecord(by_name[1])
          ELSE Raised("ValueError", 0,
                      "No initial dataset found for experiment or name has been changed")

\* line 175: datasets = self.list_by_experiment(experiment_id=experiment_id)
FindInitialList ==
  /\ engine = "Datasets.find_initial_dataset"
  /\ pc = "idle"
  /\ UNCHANGED <<engine, uploadVars, now, end, last, sleeps, poll_s, timeout_s,
                 experiment, response>>
  /\ \E status \in CallStatuses, listing \in LookupListings :
       /\ log' = Append(log, ListDatasets(ServerId))
       /\ last_status' = status
       /\ IF GetFailed(status)
          THEN /\ Finish(Raised("Exception: Failed to get datasets by experiment",
                                status, ResponseText(status)))
               /\ UNCHANGED dds
          ELSE /\ dds' = listing
               /\ pc' = "get_experiment"
               /\ UNCHANGED result
  /\ KeepsClient
  /\ UNCHANGED <<peer, args>>

\* lines 176-197: the experiment's name by get_by_id, then the selection
FindInitialSelect ==
  /\ engine = "Datasets.find_initial_dataset"
  /\ pc = "get_experiment"
  /\ UNCHANGED <<engine, uploadVars, now, end, last, sleeps, poll_s, timeout_s,
                 dds, response>>
  /\ \E status \in CallStatuses, e \in LookupExperiments :
       /\ log' = Append(log, GetExperiment(ServerId))
       /\ last_status' = status
       /\ IF GetFailed(status)
          THEN /\ Finish(Raised("Exception: Failed to get experiment", status,
                                ResponseText(status)))
               /\ UNCHANGED experiment
          ELSE /\ experiment' = e
               /\ Finish(FindInitialResult(dds, e.name))
  /\ KeepsClient
  /\ UNCHANGED <<peer, args>>

(***************************************************************************)
(* Health.check                                                            *)
(***************************************************************************)
HealthStatuses == {200, 301, 404, 500}

\* response bodies: a JSON object with the keys status and message, or text
\* that response.json() cannot decode
HealthBodies ==
  [decodable : {TRUE}, status : {"ok", "error"}, message : {"", "db down"}]
    \cup [decodable : {FALSE}, status : {""}, message : {""}]

\* what the request of Health.check may come to
HealthResponses ==
  [transport : {"raises"}, status : {0}, body : {<<>>}]
    \cup [transport : {"ok"}, status : HealthStatuses,
          body : {<<b>> : b \in HealthBodies}]

\* response.raise_for_status() raises HTTPError
RaiseForStatus(status) == status >= 400 /\ status < 600

\* str(e) of the exception caught
TransportErrorText == "Connection refused"
DecodeErrorText == "Expecting value: line 1 column 1 (char 0)"
HttpErrorText(status) ==
  CASE status = 404 -> "404 Client Error"
    [] status = 500 -> "500 Server Error"
    [] OTHER -> IF status < 500 THEN "Client Error" ELSE "Server Error"

\* {"status": "error", "message": str(e)}
ErrorRecord(message) ==
  [Returned("dict") EXCEPT !.record = <<[status |-> "error", message |-> message]>>]

\* mutant: a body that is not JSON makes check raise
HealthCheckResult_DecodeRaises(r) ==
  IF r.transport = "raises" THEN ErrorRecord(TransportErrorText)
  ELSE IF RaiseForStatus(r.status) THEN ErrorRecord(HttpErrorText(r.status))
  ELSE IF ~r.body[1].decodable THEN Raised("JSONDecodeError", 0, DecodeErrorText)
  ELSE [Returned("dict") EXCEPT
          !.record = <<[status |-> r.body[1].status, message |-> r.body[1].message]>>]

\* lines 19-25 of Health.check: what it returns
HealthCheckResult(r) ==
  IF r.transport = "raises" THEN ErrorRecord(TransportErrorText)
  ELSE IF RaiseForStatus(r.status) THEN ErrorRecord(HttpErrorText(r.status))
  ELSE IF ~r.body[1].decodable THEN ErrorRecord(DecodeErrorText)
  ELSE [Returned("dict") EXCEPT
          !.record = <<[status |-> r.body[1].status, message |-> r.body[1].message]>>]

\* Health.check()
HealthCheck ==
  /\ engine = "Health.check"
  /\ pc = "idle"
  /\ UNCHANGED <<engine, uploadVars, now, end, last, sleeps, poll_s, timeout_s,
                 dds, experiment>>
  /\ \E r \in HealthResponses :
       /\ response' = r
       /\ log' = Append(log, GetHealth)
       /\ last_status' = IF r.transport = "raises" THEN last_status ELSE r.status
       /\ Finish(HealthCheckResult(r))
  /\ KeepsClient
  /\ UNCHANGED <<peer, args>>

CallNames ==
  {"Experiments.get_by_id", "Experiments.get_by_name",
   "Experiments.update_sample_metadata", "Datasets.create",
   "Datasets.list_by_experiment", "Datasets.delete", "Datasets.retry",
   "Datasets.find_initial_dataset", "Health.check"}

InitCalls ==
  /\ engine \in CallNames
  /\ NoUpload
  /\ NoPolling
  /\ pc = "idle"
  /\ log = <<>>
  /\ last_status = 0
  /\ result = NoResult

NextCalls ==
  \/ GetById
  \/ GetByName
  \/ UpdateSampleMetadata
  \/ DatasetsCreate
  \/ ListByExperiment
  \/ DatasetsDelete
  \/ DatasetsRetry
  \/ FindInitialList
  \/ FindInitialSelect
  \/ HealthCheck

SpecCalls == InitCalls /\ [][NextCalls]_vars

\* every operation of the resources MDClient holds: experiments, datasets
\* and health
InitClient == Init \/ InitWait \/ InitCalls
NextClient == Next \/ NextWait \/ NextCalls
SpecClient == InitClient /\ [][NextClient]_vars

(***************************************************************************)
(* Two calls on one client: a call of the client (create, a wait, a        *)
(* one-request operation) and, interleaved with it step by step, a call of *)
(* Experiments.wait_until_complete for another experiment.  The locals of  *)
(* the second call (end, last, the record fetched) are its own, as they    *)
(* are in the code; each call reads time.monotonic() for itself.           *)
(***************************************************************************)
\* every variable of the first call
callVars ==
  <<engine, uploadVars, pc, log, last_status, result, now, end, last, sleeps,
    poll_s, timeout_s, dds, experiment, response, args>>

\* the experiment the second call waits for
PeerId == "exp-2"
PeerTimeouts == {1, 2}
PeerExperiments ==
  [id : {PeerId}, name : {"Y"}, status : {"RUNNING", "COMPLETED", "FAILED"}]

\* wait_until_complete(PeerId, poll_s=1, timeout_s=t) is about to run
PeerCalls ==
  {[NoPeer EXCEPT !.pc = "idle", !.poll_s = 1, !.timeout_s = t] : t \in PeerTimeouts}

\* the client after a step of the second call
PeerKeepsClient ==
  client' = IF peer'.log # peer.log THEN ClientAfterRequest(client) ELSE client

\* end = time.monotonic() + timeout_s; last = None
PeerWaitStart ==
  /\ peer.pc = "idle"
  /\ peer' = [peer EXCEPT !.end = peer.now + peer.timeout_s, !.last = None,
                          !.pc = "poll"]
  /\ PeerKeepsClient
  /\ UNCHANGED callVars

\* one iteration of the loop of the second call, up to its sleep
PeerPoll ==
  /\ peer.pc = "poll"
  /\ peer.now < peer.end
  /\ \E dt \in FetchTimes :
       \/ \E status_code \in {c \in GetStatuses : GetFailed(c)} :
            peer' = [peer EXCEPT
                       !.log = Append(@, GetExperiment(PeerId)),
                       !.now = @ + dt,
                       !.last_status = status_code,
                       !.pc = "done",
                       !.result = Raised("Exception: Failed to get experiment",
                                         status_code, ResponseText(status_code))]
       \/ \E status_code \in {c \in GetStatuses : ~GetFailed(c)},
             e \in PeerExperiments :
            peer' = [peer EXCEPT
                       !.log = Append(@, GetExperiment(PeerId)),
                       !.now = @ + dt,
                       !.last_status = status_code,
                       !.last = e.status,
                       !.result = ExperimentsPollResult(e),
                       !.pc = IF ExperimentsPollResult(e) = NoResult
                              THEN "sleep" ELSE "done"]
  /\ PeerKeepsClient
  /\ UNCHANGED callVars

\* time.sleep(poll_s) of the second call
PeerSleep ==
  /\ peer.pc = "sleep"
  /\ peer' = [peer EXCEPT !.now = AfterSleep(@, peer.poll_s), !.pc = "poll"]
  /\ PeerKeepsClient
  /\ UNCHANGED callVars

\* the loop condition of the second call fails: raise TimeoutError
PeerTimedOut ==
  /\ peer.pc = "poll"
  /\ ~(peer.now < peer.end)
  /\ peer' = [peer EXCEPT !.pc = "done", !.result = TimeoutResult(peer.last)]
  /\ PeerKeepsClient
  /\ UNCHANGED callVars

\* the first call: a create that uploads, a wait, or a delete
PairCalls == {"Experiments", "Datasets.delete"} \cup WaitCalls
PairExperiment ==
  [file_location |-> "/data", s3_bucket |-> "bucket", filenames |-> <<"a.raw">>]
PairFiles == [f \in FileNames |-> IF f = "a.raw" THEN 2 ELSE Missing]

InitPair ==
  /\ engine \in PairCalls
  /\ exp = IF engine = "Experiments" THEN PairExperiment ELSE NoExperiment
  /\ fs = IF engine = "Experiments" THEN PairFiles ELSE NoFiles
  /\ payload = NoPayload
  /\ resp = NoResponse
  /\ uploads = <<>>
  /\ idx = 0
  /\ todo = <<>>
  /\ fpos = 0
  /\ chunk = NoChunk
  /\ uploaded_parts = <<>>
  /\ pc = "idle"
  /\ log = <<>>
  /\ last_status = 0
  /\ result = NoResult
  /\ now = 0
  /\ end = 0
  /\ last = None
  /\ sleeps = 0
  /\ poll_s = IF engine \in WaitCalls THEN 1 ELSE 0
  /\ timeout_s = IF engine \in WaitCalls THEN 1 ELSE 0
  /\ dds = <<>>
  /\ experiment = NoExperimentFetched
  /\ response = NoHealthResponse
  /\ client = TheClient
  /\ peer \in PeerCalls
  /\ args = NoArgs

NextPair ==
  \/ Create
  \/ UploadFile
  \/ UploadPart
  \/ CompleteMultipartUpload
  \/ StartWorkflow
  \/ WaitStart
  \/ ExperimentsPoll
  \/ DatasetsPoll
  \/ Sleep
  \/ TimedOut
  \/ DatasetsDelete
  \/ PeerWaitStart
  \/ PeerPoll
  \/ PeerSleep
  \/ PeerTimedOut

SpecPair == InitPair /\ [][NextPair]_vars

(***************************************************************************)
(* Metadata tables: SampleMetadata.to_columns and pairwise_vs_control,     *)
(* ExperimentDesign._normalize_rows and __post_init__.  A table is a       *)
(* sequence of rows, a row a sequence of strings; row 1 is the header.     *)
(***************************************************************************)
\* cells of a sample metadata table
CellValues == {"", "a", "b", "c"}
SampleHeaders ==
  {<<>>, <<"group">>, <<" group ">>, <<"batch">>, <<"batch", "group">>,
   <<"group", "group">>}
\* data rows: empty, one cell, or two cells
SampleRows ==
  {<<>>} \cup {<<v>> : v \in CellValues} \cup {<<"b", v>> : v \in {"a", "c"}}
SampleTables ==
  {<<>>} \cup {<<h>> \o rows : h \in SampleHeaders,
                               rows \in SeqsUpTo(SampleRows, MaxRows)}
Controls == {"c", "a", ""}

\* str.strip() on the header cells above
Strip(h) == IF h = " group " THEN "group" ELSE h

\* str(row[i]) if i < len(row) else ""
CellAt(row, i) == IF i <= Len(row) THEN row[i] ELSE ""

\* `for i, h in enumerate(headers): cols[h].append(...)` for one row: what
\* the row appends to cols[name]
RECURSIVE RowAppends(_, _, _, _)
RowAppends(headers, row, name, i) ==
  IF i > Len(headers) THEN <<>>
  ELSE (IF headers[i] = name THEN <<CellAt(row, i)>> ELSE <<>>)
         \o RowAppends(headers, row, name, i + 1)

\* cols[name] after the loop over self.data[1:]
RECURSIVE ColumnValues(_, _, _, _)
ColumnValues(headers, data, name, r) ==
  IF r > Len(data) THEN <<>>
  ELSE RowAppends(headers, data[r], name, 1)
         \o ColumnValues(headers, data, name, r + 1)

\* SampleMetadata.to_columns: a function from the header names to columns
ToColumns(data) ==
  IF data = <<>> \/ data[1] = <<>> THEN [name \in {} |-> <<>>]
  ELSE LET headers == [i \in 1..Len(data[1]) |-> Strip(data[1][i])]
       IN [name \in {headers[i] : i \in 1..Len(headers)} |->
             ColumnValues(headers, data, name, 2)]

\* lines 94-99 of pairwise_vs_control: the values in first-seen order
RECURSIVE Ordered(_, _, _)
Ordered(values, seen, i) ==
  IF i > Len(values) THEN <<>>
  ELSE IF values[i] # "" /\ values[i] \notin seen
  THEN <<values[i]>> \o Ordered(values, seen \cup {values[i]}, i + 1)
  ELSE Ordered(values, seen, i + 1)

\* [[value, control] for value in ordered if value != control]
RECURSIVE Pairs(_, _)
Pairs(ordered, control) ==
  IF ordered = <<>> THEN <<>>
  ELSE (IF Head(ordered) # control THEN <<<<Head(ordered), control>>>> ELSE <<>>)
         \o Pairs(Tail(ordered), control)

\* mutant: the control is compared with itself too
PairwiseVsControl_KeepsControl(data, column, control) ==
  LET cols == ToColumns(data)
  IN IF column \notin DOMAIN cols
     THEN Raised("ValueError", 0, "Column not found in sample metadata")
     ELSE [Returned("pairs") EXCEPT
             !.record = [i \in 1..Len(Ordered(cols[column], {}, 1)) |->
                           <<Ordered(cols[column], {}, 1)[i], control>>]]

\* SampleMetadata.pairwise_vs_control(column, control)
PairwiseVsControl(data, column, control) ==
  LET cols == ToColumns(data)
  IN IF column \notin DOMAIN cols
     THEN Raised("ValueError", 0, "Column not found in sample metadata")
     ELSE [Returned("pairs") EXCEPT
             !.record = Pairs(Ordered(cols[column], {}, 1), control)]

\* header cells of an experiment design table
DesignNames == {"File ", "sample_name", "Group", "condition", "notes"}
DesignHeaders == SeqsUpTo(DesignNames, MaxHeader)
\* data rows of an experiment design table: short, full and long
DesignRows ==
  {<<>>, <<"x">>, <<"x", "y">>, <<"x", "y", "z">>, <<"x", "y", "z", "w">>}
DesignTables ==
  {<<>>} \cup {<<h>> \o rows : h \in DesignHeaders,
                               rows \in SeqsUpTo(DesignRows, MaxDesignRows)}

\* h.strip().lower() on the header cells above
StripLower(h) ==
  CASE h = "File " -> "file"
    [] h = "Group" -> "group"
    [] OTHER -> h

\* synonyms.get(h, h)
Synonym(h) ==
  CASE h = "file" -> "filename"
    [] h = "sample" -> "sample_name"
    [] h = "group" -> "condition"
    [] OTHER -> h

\* list.index(name): the first position, 0 for the ValueError it raises
RECURSIVE IndexOf(_, _, _)
IndexOf(l, name, i) ==
  IF i > Len(l) THEN 0
  ELSE IF l[i] = name THEN i
  ELSE IndexOf(l, name, i + 1)

Required == <<"filename", "sample_name", "condition">>

\* _normalize_rows raised ValueError
NormalizeFailed == <<<<"ValueError">>>>

\* mutant: the three cells of a row are written one place to the left
NormalizeRows_RotatesCells(raw) ==
  IF raw = <<>> THEN NormalizeFailed
  ELSE LET normalized_header ==
             [i \in 1..Len(raw[1]) |-> Synonym(StripLower(raw[1][i]))]
           idx_filename == IndexOf(normalized_header, "filename", 1)
           idx_sample == IndexOf(normalized_header, "sample_name", 1)
           idx_condition == IndexOf(normalized_header, "condition", 1)
       IN IF idx_filename = 0 \/ idx_sample = 0 \/ idx_condition = 0
          THEN NormalizeFailed
          ELSE <<Required>>
                 \o [r \in 1..(Len(raw) - 1) |->
                       <<CellAt(raw[r + 1], idx_sample),
                         CellAt(raw[r + 1], idx_condition),
                         CellAt(raw[r + 1], idx_filename)>>]

\* ExperimentDesign._normalize_rows: the rows it returns, or NormalizeFailed
\* when it raises
NormalizeRows(raw) ==
  IF raw = <<>> THEN NormalizeFailed
  ELSE LET normalized_header ==
             [i \in 1..Len(raw[1]) |-> Synonym(StripLower(raw[1][i]))]
           idx_filename == IndexOf(normalized_header, "filename", 1)
           idx_sample == IndexOf(normalized_header, "sample_name", 1)
           idx_condition == IndexOf(normalized_header, "condition", 1)
       IN IF idx_filename = 0 \/ idx_sample = 0 \/ idx_condition = 0
          THEN NormalizeFailed
          ELSE <<Required>>
                 \o [r \in 1..(Len(raw) - 1) |->
                       <<CellAt(raw[r + 1], idx_filename),
                         CellAt(raw[r + 1], idx_sample),
                         CellAt(raw[r + 1], idx_condition)>>]

\* ExperimentDesign.__post_init__: self.data after construction
PostInit(data) ==
  IF NormalizeRows(data) = NormalizeFailed THEN data ELSE NormalizeRows(data)

MetadataCalls == {"SampleMetadata.pairwise_vs_control", "ExperimentDesign"}

InitMetadata ==
  /\ engine \in MetadataCalls
  /\ NoUpload
  /\ response = NoHealthResponse
  /\ now = 0
  /\ end = 0
  /\ last = None
  /\ sleeps = 0
  /\ poll_s = 0
  /\ timeout_s = 0
  /\ dds = <<>>
  /\ experiment = NoExperimentFetched
  /\ client = TheClient
  /\ peer = NoPeer
  /\ pc = "idle"
  /\ log = <<>>
  /\ last_status = 0
  /\ result = NoResult
  /\ IF engine = "ExperimentDesign"
     THEN args \in [data : DesignTables, column : {""}, control : {""}]
     ELSE args \in [data : SampleTables, column : {"group"}, control : Controls]

\* the variables a call on a table leaves alone
tableFrame ==
  <<engine, uploadVars, log, last_status, now, end, last, sleeps, poll_s,
    timeout_s, dds, experiment, response, client, peer>>

\* SampleMetadata(data).pairwise_vs_control(column, control)
PairwiseVsControlCall ==
  /\ engine = "SampleMetadata.pairwise_vs_control"
  /\ pc = "idle"
  /\ Finish(PairwiseVsControl(args.data, args.column, args.control))
  /\ UNCHANGED <<tableFrame, args>>

\* ExperimentDesign(data): the table after __post_init__
DesignConstruct ==
  /\ engine = "ExperimentDesign"
  /\ pc = "idle"
  /\ pc' = "constructed"
  /\ result' = [Returned("ExperimentDesign") EXCEPT !.record = PostInit(args.data)]
  /\ UNCHANGED <<tableFrame, args>>

\* ExperimentDesign(design.data): a second construction from the table of
\* the first
DesignConstructAgain ==
  /\ engine = "ExperimentDesign"
  /\ pc = "constructed"
  /\ pc' = "done"
  /\ result' = [result EXCEPT !.record = PostInit(result.record)]
  /\ UNCHANGED <<tableFrame, args>>

NextMetadata ==
  \/ PairwiseVsControlCall
  \/ DesignConstruct
  \/ DesignConstructAgain

SpecMetadata == InitMetadata /\ [][NextMetadata]_vars

(***************************************************************************)
(* Dataset builders: run() of the builders of models.dataset_builders and  *)
(* of utils.builders.  `args` holds the fields of the builder; the fields  *)
(* left out (the booleans, filter_values_criteria, control_variables,      *)
(* sample_metadata) have their defaults or a well-formed value.            *)
(***************************************************************************)
ModelsPairwise == "models.dataset_builders.PairwiseComparisonDataset.run"
ModelsMinimal == "models.dataset_builders.MinimalDataset.run"
UtilsPairwise == "utils.builders.PairwiseComparisonDataset.run"
BuilderCalls == {ModelsPairwise, ModelsMinimal, UtilsPairwise}

\* the strings given as dataset ids: one that uuid.UUID parses, one it rejects
GoodUuid == "123e4567-e89b-12d3-a456-426614174000"
BadUuid == "not-a-uuid"
\* uuid.UUID(x) returns (TRUE) or raises ValueError (FALSE)
UuidParses(x) == x = GoodUuid

BuilderIds == {<<>>, <<GoodUuid>>, <<BadUuid>>}
BuilderComparisons ==
  {<<>>, <<<<"case", "control">>>>, <<<<"case">>>>,
   <<<<"case", "control">>, <<"a", "b", "c">>>>}
Builders ==
  [input_dataset_ids : BuilderIds,
   dataset_name : {"", "X"},
   condition_column : {"", "condition"},
   condition_comparisons : BuilderComparisons,
   entity_type : {"protein", "gene"},
   filter_valid_values_logic : {"at least one condition", "some"},
   job_slug : {"", "pairwise_comparison"}]

\* PairwiseComparisonDataset.validate of models.dataset_builders: the message
\* of the ValueError it raises, None if it returns
ValidatePairwise(b) ==
  IF b.input_dataset_ids = <<>> THEN "input_dataset_ids cannot be empty"
  ELSE IF ~Truthy(b.dataset_name) THEN "dataset_name is required"
  ELSE IF ~Truthy(b.condition_column) THEN "condition_column is required"
  ELSE IF b.condition_comparisons = <<>>
  THEN "condition_comparisons cannot be empty"
  ELSE IF \E k \in 1..Len(b.condition_comparisons) :
            Len(b.condition_comparisons[k]) # 2
  THEN "each condition comparison must have exactly 2 elements"
  ELSE IF b.entity_type \notin {"protein", "peptide"}
  THEN "entity_type must be one of: protein, peptide"
  ELSE IF b.filter_valid_values_logic \notin
            {"all conditions", "at least one condition", "full experiment"}
  THEN "filter_value_logic must be one of: all conditions, at least one condition, full experiment"
  ELSE None

\* MinimalDataset.validate
ValidateMinimal(b) ==
  IF b.input_dataset_ids = <<>> THEN "input_dataset_ids cannot be empty"
  ELSE IF ~Truthy(b.dataset_name) THEN "dataset_name is required"
  ELSE IF ~Truthy(b.job_slug) THEN "job_slug is required"
  ELSE None

\* self.validate() as run calls it: the validate of the builder's class
ValidateBuilder(call, b) ==
  IF call = ModelsPairwise THEN ValidatePairwise(b) ELSE ValidateMinimal(b)

\* to_dataset(): [UUID(x) for x in self.input_dataset_ids] raises ValueError
\* at the first string that is not a UUID
ToDatasetFails(b) ==
  \E k \in 1..Len(b.input_dataset_ids) : ~UuidParses(b.input_dataset_ids[k])

InitBuilders ==
  /\ engine \in BuilderCalls
  /\ NoUpload
  /\ response = NoHealthResponse
  /\ now = 0
  /\ end = 0
  /\ last = None
  /\ sleeps = 0
  /\ poll_s = 0
  /\ timeout_s = 0
  /\ dds = <<>>
  /\ experiment = NoExperimentFetched
  /\ client = TheClient
  /\ peer = NoPeer
  /\ pc = "idle"
  /\ log = <<>>
  /\ last_status = 0
  /\ result = NoResult
  /\ args \in Builders

\* client.datasets.create(self.to_dataset()): the dataset is built, then
\* Datasets.create posts it and reads the answer
BuilderCreate ==
  IF ToDatasetFails(args)
  THEN /\ Finish(Raised("ValueError", 0, "badly formed hexadecimal UUID string"))
       /\ UNCHANGED <<log, last_status>>
  ELSE \E status \in CallStatuses :
         Answered(PostDatasets, status, DatasetCreateSucceeded(status),
                  Returned(TargetId), "Exception: Failed to create dataset")

\* BaseDatasetBuilder.run(client): self.validate(), then create
ModelsBuilderRun ==
  /\ engine \in {ModelsPairwise, ModelsMinimal}
  /\ pc = "idle"
  /\ IF ValidateBuilder(engine, args) # None
     THEN /\ Finish(Raised("ValueError", 0, ValidateBuilder(engine, args)))
          /\ UNCHANGED <<log, last_status>>
     ELSE BuilderCreate
  /\ UNCHANGED <<engine, uploadVars, pollVars, peer, args>>
  /\ KeepsClient

\* PairwiseComparisonDataset.run(client) of utils.builders: create
UtilsBuilderRun ==
  /\ engine = UtilsPairwise
  /\ pc = "idle"
  /\ BuilderCreate
  /\ UNCHANGED <<engine, uploadVars, pollVars, peer, args>>
  /\ KeepsClient

NextBuilders ==
  \/ ModelsBuilderRun
  \/ UtilsBuilderRun

SpecBuilders == InitBuilders /\ [][NextBuilders]_vars

(***************************************************************************)
(* Reading the request log.                                                *)
(***************************************************************************)
StartOp == "POST /experiments/{id}/start_workflow"
CompleteOp == "POST /experiments/{id}/uploads/complete"

CountOp(op) == Cardinality({k \in 1..Len(log) : log[k].op = op})
LastRequest == log[Len(log)]
Shape(entry) == <<entry.op, entry.file, entry.part>>

\* the members of a set of numbers in ascending order
RECURSIVE Ascending(_)
Ascending(S) ==
  IF S = {} THEN <<>>
  ELSE LET least == CHOOSE x \in S : \A y \in S : x <= y
       IN <<least>> \o Ascending(S \ {least})

SetOf(seq) == {seq[k] : k \in 1..Len(seq)}
IsMultipart(d) == d.mode = "multipart"

\* the requests that fully process one descriptor, as shapes
RequestsFor(d) ==
  IF IsMultipart(d)
  THEN LET asc == Ascending(SetOf(d.parts))
       IN [k \in 1..Len(asc) |-> <<"PUT part", d.filename, asc[k]>>]
            \o <<<<CompleteOp, d.filename, NoneSize>>>>
  ELSE <<<<"PUT", d.filename, NoneSize>>>>

\* the requests that fully process a list of descriptors, in the list's order
RECURSIVE RequestsForAll(_)
RequestsForAll(ds) ==
  IF ds = <<>> THEN <<>>
  ELSE RequestsFor(Head(ds)) \o RequestsForAll(Tail(ds))

\* the requests of the upload phase sent so far, as shapes
UploadShapes ==
  LET start == IF engine = "Experiments" THEN 2 ELSE 1
      stop == IF Len(log) > 0 /\ LastRequest.op = StartOp THEN Len(log) - 1 ELSE Len(log)
  IN [k \in 1..(stop - start + 1) |-> Shape(log[k + start - 1])]

IsPrefix(a, b) == Len(a) <= Len(b) /\ \A k \in 1..Len(a) : a[k] = b[k]

\* the descriptors the loop has reached
Reached == SubSeq(uploads, 1, IF idx > Len(uploads) THEN Len(uploads) ELSE idx)

\* the call reached the upload phase
Uploading == uploads # <<>> \/ idx > 0

(***************************************************************************)
(* C1: in Experiments.create, start_workflow is sent at most once; it is   *)
(* sent only as the last request, after the requests that fully process    *)
(* every upload descriptor; a create that returns has sent it if and only  *)
(* if the answer held an `uploads` list and file_location was set; and the *)
(* value returned is the id the server assigned.                           *)
(***************************************************************************)
C1_StartWorkflowOnceAfterUploads ==
  LET starts == CountOp(StartOp)
  IN /\ starts <= 1
     /\ starts = 1 =>
          /\ LastRequest.op = StartOp
          /\ LastRequest.id = ServerId
          /\ UploadShapes = RequestsForAll(resp.uploads)
          /\ resp.has_uploads
          /\ Truthy(exp.file_location)
     /\ (pc = "done" /\ result.kind = "returned") =>
          /\ result.value = ServerId
          /\ (starts = 1) <=> (resp.has_uploads /\ Truthy(exp.file_location))

\* a create that uploaded a multipart and a single file, started the workflow
\* and returned
C1_Witness ==
  /\ pc = "done"
  /\ result.kind = "returned"
  /\ CountOp(StartOp) = 1
  /\ Len(resp.uploads) = 2
  /\ IsMultipart(resp.uploads[1])
  /\ ~IsMultipart(resp.uploads[2])

\* a create on the S3 path whose answer held an `uploads` list returned
\* without start_workflow
C1_WitnessNoStart ==
  /\ pc = "done"
  /\ result.kind = "returned"
  /\ CountOp(StartOp) = 0
  /\ resp.has_uploads

\* the most recent answer refused the request it answers
LastAnswerFailed ==
  /\ Len(log) > 0
  /\ \/ LastRequest.op \in {"PUT", "PUT part"} /\ last_status \notin {200, 204}
     \/ LastRequest.op = CompleteOp /\ last_status # 200

(***************************************************************************)
(* C2: the upload phase is fail-fast.  The requests sent are a prefix of   *)
(* the requests that process, in the server's order, the descriptors the   *)
(* loop has reached, so nothing is ever sent for a later descriptor; the   *)
(* loop never passes a descriptor whose file is missing; a refused PUT or  *)
(* completion ends the call with an exception carrying that status; and a  *)
(* call that raised has sent no start_workflow and returns no id.          *)
(***************************************************************************)
C2_UploadsFailFast ==
  Uploading =>
    /\ IsPrefix(UploadShapes, RequestsForAll(Reached))
    /\ \A i \in 1..Len(uploads) : i < idx => fs[uploads[i].filename] # Missing
    /\ LastAnswerFailed =>
         /\ pc = "done"
         /\ result.kind = "raised"
         /\ result.status = last_status
    /\ (pc = "done" /\ idx \in 1..Len(uploads)) =>
         /\ result.kind = "raised"
         /\ result.value = ""
         /\ CountOp(StartOp) = 0

\* the first of two descriptors was refused: the call raised and the second
\* descriptor was never touched
C2_Witness ==
  /\ engine = "Experiments"
  /\ pc = "done"
  /\ result.kind = "raised"
  /\ LastAnswerFailed
  /\ Len(uploads) = 2
  /\ idx = 1
  /\ fs[uploads[2].filename] # Missing

(***************************************************************************)
(* C3: a completion POST is sent only for a multipart descriptor, right    *)
(* after exactly p part PUTs of that file (one per part of the descriptor) *)
(* the last of which was answered 200/204, and it carries the experiment   *)
(* id, the filename and the descriptor's upload_session_id; nothing is     *)
(* sent after a part PUT that was refused; and when start_workflow is      *)
(* sent, every multipart descriptor has had its p part PUTs and its one    *)
(* completion POST, all before start_workflow.                             *)
(***************************************************************************)
NumMultipart(ds) == Cardinality({i \in 1..Len(ds) : IsMultipart(ds[i])})
RECURSIVE NumParts(_)
NumParts(ds) ==
  IF ds = <<>> THEN 0
  ELSE (IF IsMultipart(Head(ds)) THEN Len(Head(ds).parts) ELSE 0) + NumParts(Tail(ds))

C3_CompletionSent ==
  /\ Len(log') = Len(log) + 1
  /\ log'[Len(log')].op = CompleteOp

C3_CompletionStep ==
  /\ C3_CompletionSent =>
       LET d == uploads[idx]
           p == Len(d.parts)
           puts == SubSeq(log, Len(log) - p + 1, Len(log))
       IN /\ IsMultipart(d)
          /\ p >= 1
          /\ Len(log) >= p
          /\ \A k \in 1..p : puts[k].op = "PUT part" /\ puts[k].file = d.filename
          /\ {puts[k].part : k \in 1..p} = SetOf(d.parts)
          /\ Len(log) > p => log[Len(log) - p].op # "PUT part"
          /\ last_status \in {200, 204}
          /\ log'[Len(log')].id = ServerId
          /\ log'[Len(log')].file = d.filename
          /\ log'[Len(log')].session = UploadSessionId(d)
  /\ (log' # log /\ Len(log) > 0 /\ LastRequest.op = "PUT part") =>
       last_status \in {200, 204}

C3_CompletionState ==
  /\ Uploading =>
       CountOp(CompleteOp) <= NumMultipart(Reached)
  /\ CountOp(StartOp) = 1 =>
       /\ CountOp(CompleteOp) = NumMultipart(uploads)
       /\ CountOp("PUT part") = NumParts(uploads)
       /\ \A k \in 1..Len(log) : log[k].op = CompleteOp => k < Len(log)

C3_MultipartCompletion == [](C3_CompletionState) /\ [][C3_CompletionStep]_vars

\* a create that returned after uploading a three-part file and a single file
C3_Witness ==
  /\ engine = "Experiments"
  /\ pc = "done"
  /\ result.kind = "returned"
  /\ CountOp(CompleteOp) = 1
  /\ CountOp("PUT part") = 3
  /\ CountOp("PUT") = 1

(***************************************************************************)
(* The part PUTs of the file being uploaded.                               *)
(***************************************************************************)
\* the part PUTs at the end of the log: those of the current multipart file
RECURSIVE TrailingParts(_)
TrailingParts(l) ==
  IF l = <<>> \/ l[Len(l)].op # "PUT part" THEN <<>>
  ELSE Append(TrailingParts(SubSeq(l, 1, Len(l) - 1)), l[Len(l)])

RECURSIVE SumSizes(_)
SumSizes(l) == IF l = <<>> THEN 0 ELSE Head(l).size + SumSizes(Tail(l))

\* the descriptor's part numbers are 1..n in some order
OneBased(d) == SetOf(d.parts) = 1..Len(d.parts)

C4_WitnessUploads ==
  /\ engine = "Uploads"
  /\ pc = "complete"
  /\ uploads[idx].parts = <<2, 1>>
  /\ fs[uploads[idx].filename] = MultipartThreshold

(***************************************************************************)
(* C5: the part PUTs of a file are sent in strictly ascending part_number  *)
(* order whatever the order of the descriptor's parts list, and the list   *)
(* of {part_number, etag} records built has one entry per PUT answered     *)
(* 200/204, in that order: when the file is done, one per part.            *)
(***************************************************************************)
C5_AscendingParts ==
  LET sent == TrailingParts(log)
  IN /\ \A j, k \in 1..Len(sent) : j < k => sent[j].part < sent[k].part
     /\ sent # <<>> =>
          /\ \A k \in 1..Len(uploaded_parts) :
               /\ uploaded_parts[k].part_number = sent[k].part
               /\ uploaded_parts[k].etag = <<"etag">>
          /\ Len(uploaded_parts) = IF LastAnswerFailed THEN Len(sent) - 1 ELSE Len(sent)
          /\ (pc = "complete") =>
               [k \in 1..Len(uploaded_parts) |-> uploaded_parts[k].part_number]
                 = Ascending(SetOf(uploads[idx].parts))

\* a parts list given out of order was uploaded in full
C5_Witness ==
  /\ pc = "complete"
  /\ uploads[idx].parts = <<3, 1, 2>>
  /\ Len(uploaded_parts) = 3

(***************************************************************************)
(* C6: when create is called with file_location and a non-empty filenames  *)
(* list, the file_sizes list of the payload has one entry per filename, in *)
(* order: None for a file under 31,457,280 bytes, the real size otherwise. *)
(***************************************************************************)
C6_PayloadFileSizes ==
  (engine = "Experiments" /\ log # <<>>
     /\ Truthy(exp.file_location) /\ TruthyList(exp.filenames)) =>
    /\ "file_sizes" \in payload.keys
    /\ Len(payload.file_sizes) = Len(exp.filenames)
    /\ \A i \in 1..Len(exp.filenames) :
         payload.file_sizes[i] =
           IF fs[exp.filenames[i]] < 31457280
           THEN NoneSize ELSE fs[exp.filenames[i]]

(***************************************************************************)
(* C7: should_use_multipart(s) is true if and only if s >= 31457280; it is *)
(* false for 31457279 and true for 31457280.                               *)
(***************************************************************************)
C7_MultipartThreshold ==
  (pc = "done" /\ result.value = "should_use_multipart") =>
    LET s == result.sizes[1]
    IN /\ result.flag <=> s >= 31457280
       /\ s = 31457279 => ~result.flag
       /\ s = 31457280 => result.flag

\* should_use_multipart answered for a file of exactly 31457280 bytes
C7_Witness ==
  /\ pc = "done"
  /\ result.value = "should_use_multipart"
  /\ result.sizes = <<31457280>>
  /\ result.flag

\* should_use_multipart answered for a file of 31457279 bytes
C7_WitnessBelow ==
  /\ pc = "done"
  /\ result.value = "should_use_multipart"
  /\ result.sizes = <<31457279>>
  /\ ~result.flag

(***************************************************************************)
(* C8: create raises a validation error, and sends nothing, when neither   *)
(* file_location nor s3_bucket is set and when file_location is set but    *)
(* filenames is empty or None; in every other case (also with both set)    *)
(* no validation error is raised and create goes on to build the payload   *)
(* and send POST /experiments.                                             *)
(***************************************************************************)
C8_Invalid ==
  \/ ~Truthy(exp.file_location) /\ ~Truthy(exp.s3_bucket)
  \/ Truthy(exp.file_location) /\ ~TruthyList(exp.filenames)

C8_Validation ==
  engine = "Experiments" =>
    /\ log # <<>> => ~C8_Invalid
    /\ (pc = "done" /\ C8_Invalid) =>
         /\ result.kind = "raised"
         /\ result.error = "ValueError"
         /\ log = <<>>
    /\ (pc = "done" /\ ~C8_Invalid) =>
         /\ result.error # "ValueError"
         /\ log # <<>> \/ result.error = "FileNotFoundError"

\* a create with both file_location and s3_bucket set passed validation
C8_Witness ==
  /\ pc = "done"
  /\ Truthy(exp.file_location)
  /\ Truthy(exp.s3_bucket)
  /\ result.kind = "returned"

\* a create with file_location and an empty filenames list was rejected
C8_WitnessRejected ==
  /\ pc = "done"
  /\ Truthy(exp.file_location)
  /\ exp.filenames = <<>>
  /\ result.error = "ValueError"

(***************************************************************************)
(* C9: create returns (the server's id) only if POST /experiments was      *)
(* answered 200 or 201; on any other status it raises an error carrying    *)
(* the status code and the response text, and POST /experiments stays the  *)
(* only request sent.                                                      *)
(***************************************************************************)
C9_CreateStatus ==
  engine = "Experiments" =>
    /\ result.kind = "returned" =>
         /\ resp.status \in {200, 201}
         /\ result.value = ServerId
    /\ (resp.status # 0 /\ resp.status \notin {200, 201}) =>
         /\ pc = "done"
         /\ result.kind = "raised"
         /\ result.status = resp.status
         /\ result.text = ResponseText(resp.status)
         /\ log = <<PostExperiments>>

\* POST /experiments was answered 202 with an uploads list: create raised
C9_Witness ==
  /\ pc = "done"
  /\ resp.status = 202
  /\ resp.has_uploads
  /\ Truthy(exp.file_location)
  /\ result.kind = "raised"

(***************************************************************************)
(* C10: once start_workflow is sent, create returns the experiment id      *)
(* whatever the status of the answer.                                      *)
(***************************************************************************)
C10_StartWorkflowFireAndForget ==
  CountOp(StartOp) = 1 =>
    /\ pc = "done"
    /\ result = Returned(ServerId)

\* start_workflow was answered 500 and create returned the id
C10_Witness ==
  /\ CountOp(StartOp) = 1
  /\ last_status = 500
  /\ result.kind = "returned"
  /\ result.value = ServerId

(***************************************************************************)
(* Reading a polling loop.                                                 *)
(***************************************************************************)
ExperimentsWait == engine = "Experiments.wait_until_complete"
DatasetsWait == engine = "Datasets.wait_until_complete"

\* the record the poll just made has observed: <<record>>, or <<>> when no
\* poll was just made, when its fetch failed and when the dataset is absent
SeenRecord ==
  IF ExperimentsWait
  THEN IF experiment.id # "" THEN <<experiment>> ELSE <<>>
  ELSE FindDataset(dds, TargetId)

\* the status of an experiment record, the state of a dataset record
StatusOf(r) == IF ExperimentsWait THEN r.status ELSE r.state

FailureStatuses == {"FAILED", "ERROR", "CANCELLED"}
TerminalStatuses == {"COMPLETED"} \cup FailureStatuses

(***************************************************************************)
(* C11: in both polling loops a poll that observes COMPLETED makes the     *)
(* call return that record, a poll that observes FAILED, ERROR or          *)
(* CANCELLED makes it raise a failure error whose message holds that       *)
(* status, a poll that observes any other status (missing and empty        *)
(* included) makes it sleep and poll again, and no call returns a record   *)
(* whose status is not COMPLETED.                                          *)
(***************************************************************************)
C11_PollOutcomes ==
  (ExperimentsWait \/ DatasetsWait) =>
    /\ SeenRecord # <<>> =>
         LET v == StatusOf(SeenRecord[1])
         IN /\ v = "COMPLETED" =>
                 (pc = "done" /\ result = ReturnedRecord(SeenRecord[1]))
            /\ v \in FailureStatuses =>
                 /\ pc = "done"
                 /\ result.kind = "raised"
                 /\ result.error # "TimeoutError"
                 /\ result.text = v
            /\ v \notin TerminalStatuses => (pc = "sleep" /\ result = NoResult)
    /\ result.kind = "returned" => StatusOf(result.record[1]) = "COMPLETED"

(***************************************************************************)
(* C12: when the loop condition finds the timeout elapsed, the call raises *)
(* TimeoutError and nothing else: no failure error, no record.  The status *)
(* it reports is `last`, and `last` is None at the start and after each    *)
(* poll is the status of the record if the poll observed it, and is what   *)
(* it was if the poll observed no record.                                  *)
(***************************************************************************)
C12_TimeoutState ==
  (pc = "done" /\ result.error = "TimeoutError") =>
    /\ result = Raised("TimeoutError", 0, last)
    /\ ~(now < end)
    /\ result.record = <<>>

C12_TimeoutStep ==
  /\ (pc = "idle" /\ pc' = "poll") => last' = None
  /\ (pc = "poll" /\ ~(now < end)) =>
       /\ pc' = "done"
       /\ result' = Raised("TimeoutError", 0, last)
       /\ log' = log
  /\ log' # log =>
       last' = IF SeenRecord' # <<>> THEN StatusOf(SeenRecord'[1]) ELSE last
  /\ log' = log => (pc' = "poll" \/ last' = last)

C12_TimeoutReportsLast == [](C12_TimeoutState) /\ [][C12_TimeoutStep]_vars

\* a dataset wait timed out reporting RUNNING, after at least two polls
C12_Witness ==
  /\ DatasetsWait
  /\ pc = "done"
  /\ result.error = "TimeoutError"
  /\ result.text = "RUNNING"
  /\ Len(log) >= 2

(***************************************************************************)
(* C13: in Datasets.wait_until_complete a poll whose listing came back but *)
(* does not hold the dataset id neither returns nor raises: the call goes  *)
(* to sleep and then to the loop condition again, whether the dataset was  *)
(* seen before (last is set) or not; and a poll that finds the dataset     *)
(* COMPLETED returns it.                                                   *)
(***************************************************************************)
C13_AbsentPoll ==
  /\ DatasetsWait
  /\ log' # log
  /\ last_status' = 200
  /\ FindDataset(dds', TargetId) = <<>>

C13_AbsentStep ==
  /\ C13_AbsentPoll => (pc' = "sleep" /\ result' = NoResult /\ last' = last)
  /\ (DatasetsWait /\ pc = "sleep") =>
       (pc' = "poll" /\ sleeps' = sleeps + 1 /\ result' = NoResult)
  /\ (DatasetsWait /\ log' # log /\ last_status' = 200
        /\ FindDataset(dds', TargetId) # <<>>
        /\ FindDataset(dds', TargetId)[1].state = "COMPLETED") =>
       result' = ReturnedRecord(FindDataset(dds', TargetId)[1])

C13_AbsenceIsNotTerminal == [][C13_AbsentStep]_vars

\* the dataset had been seen RUNNING, is now missing from the listing, and
\* the call sleeps with time left for another poll
C13_Witness ==
  /\ DatasetsWait
  /\ pc = "sleep"
  /\ dds # <<>>
  /\ FindDataset(dds, TargetId) = <<>>
  /\ last = "RUNNING"
  /\ now + poll_s < end

\* the dataset has not appeared yet: the call sleeps
C13_WitnessNotYet ==
  /\ DatasetsWait
  /\ pc = "sleep"
  /\ FindDataset(dds, TargetId) = <<>>
  /\ last = None
  /\ Len(log) = 1

(***************************************************************************)
(* C14: a poll that observes COMPLETED, FAILED, ERROR or CANCELLED ends    *)
(* the call: no fetch and no sleep follows it.  Every poll but the first   *)
(* follows one sleep, so a call that returns has made one more fetch than  *)
(* sleeps: one fetch and no sleep when the first poll sees COMPLETED.      *)
(***************************************************************************)
C14_TerminalSeen ==
  SeenRecord # <<>> /\ StatusOf(SeenRecord[1]) \in TerminalStatuses

C14_TerminalState ==
  (ExperimentsWait \/ DatasetsWait) =>
    /\ C14_TerminalSeen => pc = "done"
    /\ sleeps <= Len(log)
    /\ Len(log) <= sleeps + 1
    /\ result.kind = "returned" => Len(log) = sleeps + 1

C14_TerminalStep ==
  C14_TerminalSeen => (log' = log /\ sleeps' = sleeps /\ now' = now)

C14_TerminalAbsorbing == [](C14_TerminalState) /\ [][C14_TerminalStep]_vars

\* a dataset COMPLETED at the first poll was returned: one fetch, no sleep
C14_Witness ==
  /\ DatasetsWait
  /\ pc = "done"
  /\ result.kind = "returned"
  /\ Len(log) = 1
  /\ sleeps = 0

(***************************************************************************)
(* C15: the two loops classify every status string alike: what the         *)
(* experiment loop did with the status v it observed is what the dataset   *)
(* loop does with a dataset state v, and the other way round.              *)
(***************************************************************************)
C15_Outcome ==
  IF pc = "sleep" THEN "waiting"
  ELSE IF result.kind = "returned" THEN "success" ELSE "failure"

C15_SameConvention ==
  SeenRecord # <<>> =>
    IF ExperimentsWait
    THEN DatasetStateClass(StatusOf(SeenRecord[1])) = C15_Outcome
    ELSE ExperimentStatusClass(StatusOf(SeenRecord[1])) = C15_Outcome

(***************************************************************************)
(* C16: find_initial_dataset, once it has the listing and the experiment,  *)
(* returns a dataset if and only if exactly one entry of the listing has   *)
(* type INTENSITY and the experiment's name, and then returns that entry;  *)
(* in every other case (empty listing, no INTENSITY entry, none with the   *)
(* name, several with the name) it raises ValueError and returns nothing.  *)
(***************************************************************************)
C16_Matches ==
  {i \in 1..Len(dds) : dds[i].type = "INTENSITY" /\ dds[i].name = experiment.name}

C16_Selected ==
  /\ engine = "Datasets.find_initial_dataset"
  /\ pc = "done"
  /\ Len(log) = 2
  /\ last_status = 200

C17_Timed == {i \in 1..Len(dds) : dds[i].job_run_start_time # NoTime}
C17_Earliest ==
  {i \in C17_Timed :
     \A j \in C17_Timed \ {i} : dds[i].job_run_start_time < dds[j].job_run_start_time}

C17_Preferred ==
  IF Intensity(dds) # <<>> THEN Intensity(dds)[1]
  ELSE IF C17_Earliest # {} THEN dds[CHOOSE i \in C17_Earliest : TRUE]
  ELSE dds[1]

C17_DocstringPreference ==
  (C16_Selected /\ dds # <<>>) => result = ReturnedRecord(C17_Preferred)

(***************************************************************************)
(* C18: no request follows an answer that its operation counts as failed;  *)
(* an operation that does not poll sends each of its requests at most      *)
(* once; and in wait_until_complete a fetch answered with another status   *)
(* than 200 ends the call at once with the error of that status, without   *)
(* sleep or further poll.                                                  *)
(***************************************************************************)
\* how many requests fully process a list of descriptors
RECURSIVE NumRequests(_)
NumRequests(ds) ==
  IF ds = <<>> THEN 0
  ELSE (IF IsMultipart(Head(ds)) THEN Len(Head(ds).parts) + 1 ELSE 1)
         + NumRequests(Tail(ds))

C18_AnswerOk(op, status) ==
  IF op \in {"PUT", "PUT part"} THEN status \in {200, 204}
  ELSE IF op = "POST /experiments" THEN status \in {200, 201}
  ELSE status = 200

C18_State ==
  /\ ((ExperimentsWait \/ DatasetsWait) /\ log # <<>> /\ last_status # 200) =>
         /\ pc = "done"
         /\ result.kind = "raised"
         /\ result.error # "TimeoutError"
         /\ result.status = last_status
  /\ engine \in CallNames \ {"Datasets.find_initial_dataset"} => Len(log) <= 1
  /\ engine = "Datasets.find_initial_dataset" =>
       /\ Len(log) <= 2
       /\ Len(log) = 2 => log[1] # log[2]
  /\ (engine = "Experiments" /\ log # <<>>) =>
       /\ \A k \in 2..Len(log) : log[k].op # "POST /experiments"
       /\ \A k \in 1..(Len(log) - 1) : log[k].op # StartOp
       /\ Len(log) <= 1 + NumRequests(Reached)
                        + (IF LastRequest.op = StartOp THEN 1 ELSE 0)

C18_Step ==
  (log' # log /\ log # <<>>) =>
    /\ Len(log') = Len(log) + 1
    /\ C18_AnswerOk(LastRequest.op, last_status)
    /\ result = NoResult

C18_NoSilentRetries == [](C18_State) /\ [][C18_Step]_vars

\* a poll of the experiment was answered 500 after an earlier poll and a
\* sleep: the wait ended with that error
C18_Witness ==
  /\ ExperimentsWait
  /\ pc = "done"
  /\ last_status = 500
  /\ Len(log) = 2
  /\ sleeps = 1
  /\ result.status = 500

(***************************************************************************)
(* C19: each request wrapper returns exactly on its success codes and      *)
(* otherwise raises an error that carries the status code and the response *)
(* text: 200 for get by id, get by name, update sample metadata, list      *)
(* datasets, retry dataset and complete multipart upload; 204 for delete   *)
(* dataset; 200 or 201 for create dataset.                                 *)
(***************************************************************************)
C19_Wrappers == CallNames \ {"Datasets.find_initial_dataset", "Health.check"}

C19_SuccessCodes(operation) ==
  IF operation = "Datasets.delete" THEN {204}
  ELSE IF operation = "Datasets.create" THEN {200, 201}
  ELSE {200}

C19_RaisedWithAnswer ==
  /\ pc = "done"
  /\ result.kind = "raised"
  /\ result.status = last_status
  /\ result.text = ResponseText(last_status)

C19_SuccessCodesOnly ==
  /\ (engine \in C19_Wrappers /\ pc = "done") =>
       IF last_status \in C19_SuccessCodes(engine)
       THEN result.kind = "returned"
       ELSE C19_RaisedWithAnswer
  /\ (engine = "Experiments" /\ log # <<>> /\ LastRequest.op = CompleteOp) =>
       IF last_status = 200
       THEN result.error # "Exception: Failed to complete multipart upload"
       ELSE C19_RaisedWithAnswer

\* DELETE was answered 200: delete raised
C19_Witness ==
  /\ engine = "Datasets.delete"
  /\ pc = "done"
  /\ last_status = 200
  /\ result.kind = "raised"

\* the completion POST was answered 204: the upload raised
C19_WitnessComplete ==
  /\ log # <<>>
  /\ LastRequest.op = CompleteOp
  /\ last_status = 204
  /\ result.kind = "raised"

(***************************************************************************)
(* C20: Health.check always returns: {status: "error", message: text of    *)
(* the failure} when the transport raises, when raise_for_status finds a   *)
(* 4xx or 5xx status and when the body is not JSON, and the decoded body   *)
(* unchanged otherwise.                                                    *)
(***************************************************************************)
C20_ErrorDict(message) == <<[status |-> "error", message |-> message]>>

C20_HealthNeverRaises ==
  (engine = "Health.check" /\ pc = "done") =>
    /\ result.kind = "returned"
    /\ IF response.transport = "raises"
       THEN result.record = C20_ErrorDict("Connection refused")
       ELSE IF response.status \in 400..599
       THEN result.record =
              C20_ErrorDict(IF response.status = 404 THEN "404 Client Error"
                            ELSE "500 Server Error")
       ELSE IF ~response.body[1].decodable
       THEN result.record = C20_ErrorDict("Expecting value: line 1 column 1 (char 0)")
       ELSE result.record =
              <<[status |-> response.body[1].status,
                 message |-> response.body[1].message]>>

\* the health request was answered 200 with a body that is not JSON
C20_Witness ==
  /\ engine = "Health.check"
  /\ pc = "done"
  /\ response.transport = "ok"
  /\ response.status = 200
  /\ ~response.body[1].decodable
  /\ result.kind = "returned"


(***************************************************************************)
(* C21: in the payload of POST /experiments the local files take           *)
(* precedence.  When file_location is set, with or without s3_bucket, the  *)
(* payload carries file_location and neither s3_bucket nor s3_prefix, and  *)
(* an accepted answer that holds "uploads" takes create into the upload    *)
(* loop; when file_location is not set the payload carries s3_bucket and   *)
(* s3_prefix and neither file_location nor file_sizes.                     *)
(***************************************************************************)
C21_PostStep ==
  /\ engine = "Experiments"
  /\ log = <<>>
  /\ log' = <<PostExperiments>>

C21_Step ==
  C21_PostStep =>
    IF Truthy(exp.file_location)
    THEN /\ "file_location" \in payload'.keys
         /\ payload'.file_location = exp.file_location
         /\ "s3_bucket" \notin payload'.keys
         /\ "s3_prefix" \notin payload'.keys
         /\ payload'.s3_bucket = Absent
         /\ (CreateSucceeded(resp'.status) /\ resp'.has_uploads) =>
              (pc' = "upload_files" /\ uploads' = resp'.uploads)
    ELSE /\ "s3_bucket" \in payload'.keys
         /\ "s3_prefix" \in payload'.keys
         /\ payload'.s3_bucket = exp.s3_bucket
         /\ "file_location" \notin payload'.keys
         /\ "file_sizes" \notin payload'.keys
         /\ payload'.file_location = Absent
         /\ payload'.file_sizes = <<>>

C21_LocalFilesTakePrecedence == [][C21_Step]_vars

\* both were set, the payload went out with file_location and a file was
\* uploaded
C21_Witness ==
  /\ engine = "Experiments"
  /\ Truthy(exp.file_location)
  /\ Truthy(exp.s3_bucket)
  /\ "file_location" \in payload.keys
  /\ "s3_bucket" \notin payload.keys
  /\ Len(log) >= 2
  /\ log[2].op = "PUT"

\* only the bucket was set and the payload went out with it
C21_WitnessBucket ==
  /\ engine = "Experiments"
  /\ ~Truthy(exp.file_location)
  /\ log = <<PostExperiments>>
  /\ payload.s3_bucket = "bucket"


(***************************************************************************)
(* C22: two calls on one client share no mutable state.  In every          *)
(* interleaving of their steps no step changes the client's base_url or    *)
(* api_token, a step of one call leaves every local of the other alone,    *)
(* each call's log holds its own requests only, and each wait ends as its  *)
(* own fetches and its own clock say.                                      *)
(***************************************************************************)
C22_OwnRequests ==
  /\ \A k \in 1..Len(log) : log[k].id # PeerId
  /\ \A k \in 1..Len(peer.log) : peer.log[k] = GetExperiment(PeerId)

C22_PeerOutcome ==
  peer.pc = "done" =>
    \/ /\ peer.result = TimeoutResult(peer.last)
       /\ ~(peer.now < peer.end)
       /\ peer.last \in {None, "RUNNING"}
    \/ /\ peer.result = Raised("Exception: Failed to get experiment",
                               peer.last_status, ResponseText(peer.last_status))
       /\ GetFailed(peer.last_status)
    \/ /\ peer.last_status = 200
       /\ \E e \in PeerExperiments :
            /\ peer.last = e.status
            /\ e.status # "RUNNING"
            /\ peer.result = ExperimentsPollResult(e)

\* the first call, when it is a wait, ends as its own fetches and clock say
C22_CallOutcome ==
  (engine \in WaitCalls /\ pc = "done") =>
    \/ /\ result = TimeoutResult(last)
       /\ ~(now < end)
    \/ /\ result.kind = "raised"
       /\ result.status = last_status
       /\ GetFailed(last_status)
    \/ /\ last_status = 200
       /\ engine = "Experiments.wait_until_complete"
       /\ experiment.id = ServerId
       /\ last = experiment.status
       /\ result = ExperimentsPollResult(experiment)
       /\ result # NoResult
    \/ /\ last_status = 200
       /\ engine = "Datasets.wait_until_complete"
       /\ result = DatasetsPollResult(FindDataset(dds, TargetId))
       /\ result # NoResult

C22_State ==
  /\ client = TheClient
  /\ C22_OwnRequests
  /\ C22_PeerOutcome
  /\ C22_CallOutcome

C22_Step ==
  /\ client' = client
  /\ peer' # peer => UNCHANGED callVars
  /\ callVars' # callVars => peer' = peer

C22_NoSharedState == [](C22_State) /\ [][C22_Step]_vars

\* a create is in the middle of a multipart upload while the other call
\* sleeps between two polls
C22_Witness ==
  /\ engine = "Experiments"
  /\ pc = "upload_parts"
  /\ Len(log) >= 2
  /\ peer.pc = "sleep"
  /\ Len(peer.log) = 1

\* both waits are over, the second after two polls
C22_WitnessWaits ==
  /\ engine = "Datasets.wait_until_complete"
  /\ pc = "done"
  /\ Len(log) = 1
  /\ peer.pc = "done"
  /\ Len(peer.log) = 2
  /\ result.kind = "returned"
  /\ peer.result.kind = "raised"


(***************************************************************************)
(* C23: pairwise_vs_control(column, control) returns the pairs             *)
(* [v, control] for the distinct non-empty values v of the column that     *)
(* differ from control: each such v exactly once, in the order in which    *)
(* the values first appear in the column (read row by row when the header  *)
(* names the column twice), and never the control as first element.  Over  *)
(* the values a, a, b, c with control c it returns [[a, c], [b, c]].       *)
(***************************************************************************)
C23_Returned ==
  /\ engine = "SampleMetadata.pairwise_vs_control"
  /\ pc = "done"
  /\ result.kind = "returned"

\* the header cells that name the column
C23_Named == {i \in 1..Len(args.data[1]) : Strip(args.data[1][i]) = args.column}

\* where a value stands in the column: row first, then header cell
C23_Places(v) ==
  {y[1] * (Len(args.data[1]) + 1) + y[2] :
     y \in {x \in (2..Len(args.data)) \X C23_Named :
              CellAt(args.data[x[1]], x[2]) = v}}

C23_First(v) == CHOOSE p \in C23_Places(v) : \A q \in C23_Places(v) : p <= q

C23_Compared == {v \in CellValues : C23_Places(v) # {}} \ {"", args.control}

C23_Example == <<<<"group">>, <<"a">>, <<"a">>, <<"b">>, <<"c">>>>

C23_PairwiseVsControl ==
  C23_Returned =>
    /\ \A k \in 1..Len(result.record) :
         /\ result.record[k] = <<result.record[k][1], args.control>>
         /\ result.record[k][1] \in C23_Compared
    /\ \A v \in C23_Compared :
         Cardinality({k \in 1..Len(result.record) : result.record[k][1] = v}) = 1
    /\ \A j, k \in 1..Len(result.record) :
         j < k => C23_First(result.record[j][1]) < C23_First(result.record[k][1])
    /\ (args.data = C23_Example /\ args.control = "c") =>
         result.record = <<<<"a", "c">>, <<"b", "c">>>>

\* the table of the example, with control c
C23_Witness ==
  /\ C23_Returned
  /\ args.data = C23_Example
  /\ args.control = "c"
  /\ Len(result.record) = 2

(***************************************************************************)
(* C24: normalization of an ExperimentDesign is idempotent.  A table whose *)
(* header names filename, sample_name and condition (or their synonyms) is *)
(* given the header [filename, sample_name, condition] and one three-cell  *)
(* row per data row; a table without them is left exactly as given; and    *)
(* constructing an ExperimentDesign again from the table of the first      *)
(* gives the same table.                                                   *)
(***************************************************************************)
C24_Names(data) ==
  IF data = <<>> THEN {}
  ELSE {Synonym(StripLower(data[1][i])) : i \in 1..Len(data[1])}

C24_Accepted(data) == {"filename", "sample_name", "condition"} \subseteq C24_Names(data)

C24_State ==
  (engine = "ExperimentDesign" /\ pc # "idle") =>
    IF C24_Accepted(args.data)
    THEN /\ pc = "constructed" =>
              /\ Len(result.record) = Len(args.data)
              /\ result.record[1] = <<"filename", "sample_name", "condition">>
              /\ \A r \in 2..Len(result.record) : Len(result.record[r]) = 3
    ELSE result.record = args.data

C24_Step ==
  (engine = "ExperimentDesign" /\ pc = "constructed" /\ pc' = "done") =>
    result'.record = result.record

C24_NormalizationIdempotent == [](C24_State) /\ [][C24_Step]_vars

\* a table with the synonyms out of order, a column too many and a short
\* row was normalized twice
C24_Witness ==
  /\ engine = "ExperimentDesign"
  /\ pc = "done"
  /\ args.data = <<<<"Group", "notes", "File ", "sample_name">>, <<"x", "y">>>>
  /\ result.record = <<<<"filename", "sample_name", "condition">>, <<"", "", "x">>>>

\* a table without a condition column was left as given, twice
C24_WitnessUnchanged ==
  /\ engine = "ExperimentDesign"
  /\ pc = "done"
  /\ args.data = <<<<"File ", "sample_name">>, <<"x", "y">>>>
  /\ result.record = args.data


(***************************************************************************)
(* C25: when a name in the experiment's filenames does not exist under     *)
(* file_location, create raises FileNotFoundError while it builds the      *)
(* payload: POST /experiments is never sent, so no experiment is created   *)
(* and no upload or start_workflow request is made.                        *)
(***************************************************************************)
C25_MissingFile ==
  /\ engine = "Experiments"
  /\ Truthy(exp.file_location)
  /\ TruthyList(exp.filenames)
  /\ \E i \in 1..Len(exp.filenames) : fs[exp.filenames[i]] = Missing

C25_MissingFileStopsCreate ==
  C25_MissingFile =>
    /\ log = <<>>
    /\ payload = NoPayload
    /\ resp = NoResponse
    /\ pc \in {"idle", "done"}
    /\ pc = "done" =>
         /\ result.kind = "raised"
         /\ result.error = "FileNotFoundError"
         /\ fs[result.text] = Missing

\* the second of two filenames was missing and create raised
C25_Witness ==
  /\ C25_MissingFile
  /\ pc = "done"
  /\ exp.filenames = <<"a.raw", "b.raw">>
  /\ fs["a.raw"] # Missing
  /\ result.text = "b.raw"


(***************************************************************************)
(* C26: whatever the numbering of the n distinct parts of a multipart      *)
(* file (1..n, numbered from 0, with gaps), the chunk of the highest part number   *)
(* takes the remainder: once all parts are sent the chunk sizes sum to the *)
(* file size and the whole file has been read.                             *)
(***************************************************************************)
C26_AllPartsSent ==
  /\ pc = "complete"
  /\ Cardinality(SetOf(uploads[idx].parts)) = Len(uploads[idx].parts)
  /\ Len(TrailingParts(log)) = Len(uploads[idx].parts)

C26_WholeFileSent ==
  C26_AllPartsSent =>
    /\ SumSizes(TrailingParts(log)) = fs[uploads[idx].filename]
    /\ fpos = fs[uploads[idx].filename]


(***************************************************************************)
(* C27: wait_until_complete raises TimeoutError only after it has polled   *)
(* at least once and seen a status that is not terminal (or no record):    *)
(* for every timeout_s, 0 included, the first poll is made, so a resource  *)
(* that is already COMPLETED is returned and one that is already FAILED    *)
(* raises the failure error.                                               *)
(***************************************************************************)
C27_TimedOut ==
  /\ engine \in WaitCalls
  /\ pc = "done"
  /\ result.error = "TimeoutError"

C27_TimeoutAfterPoll ==
  C27_TimedOut =>
    /\ log # <<>>
    /\ sleeps >= 1
    /\ last \notin {"COMPLETED", "FAILED", "ERROR", "CANCELLED"}


(***************************************************************************)
(* C28: with a poll interval above 0, whatever the timeout and whatever    *)
(* the server answers (a resource that never becomes terminal or never     *)
(* appears included), wait_until_complete ends, by returning, by raising   *)
(* the failure or remote-call error, or by raising TimeoutError, provided  *)
(* every fetch and sleep returns and the clock advances by the time slept; *)
(* it polls at most timeout_s / poll_s + 1 times.                          *)
(***************************************************************************)
C28_PollBound ==
  (engine \in WaitCalls /\ poll_s > 0) => Len(log) <= (timeout_s \div poll_s) + 1

C28_Over ==
  /\ pc = "done"
  /\ result.kind \in {"returned", "raised"}

C28_WaitTerminates ==
  /\ [](C28_PollBound)
  /\ (engine \in WaitCalls /\ poll_s > 0) ~> C28_Over

\* a dataset that never appeared: the call polled as often as the bound
\* allows and then timed out
C28_Witness ==
  /\ engine = "Datasets.wait_until_complete"
  /\ poll_s = 2
  /\ timeout_s = 3
  /\ pc = "done"
  /\ result = TimeoutResult(None)
  /\ Len(log) = (timeout_s \div poll_s) + 1


(***************************************************************************)
(* C29: what Datasets.wait_until_complete does after a listing depends     *)
(* only on the entries of the listing whose id is the requested            *)
(* dataset_id: it returns when the first of them is COMPLETED, raises when *)
(* it is FAILED, ERROR or CANCELLED, and goes on polling otherwise.        *)
(* Datasets with another id, whatever their state, never make the call     *)
(* return or raise, and the dataset returned has the requested id.         *)
(***************************************************************************)
C29_Own(listing) == SelectSeq(listing, LAMBDA d : d.id = TargetId)

C29_Listed ==
  /\ engine = "Datasets.wait_until_complete"
  /\ pc = "poll"
  /\ Len(log') = Len(log) + 1
  /\ last_status' = 200

C29_Step ==
  C29_Listed =>
    LET own == C29_Own(dds')
    IN /\ (own = <<>>) => (pc' = "sleep" /\ result' = NoResult /\ last' = last)
       /\ (own # <<>> /\ own[1].state = "COMPLETED") =>
            /\ pc' = "done"
            /\ result'.kind = "returned"
            /\ result'.record = <<own[1]>>
            /\ result'.record[1].id = TargetId
       /\ (own # <<>> /\ own[1].state \in {"FAILED", "ERROR", "CANCELLED"}) =>
            /\ pc' = "done"
            /\ result' = Raised("Exception: Dataset failed", 0, own[1].state)
       /\ (own # <<>> /\ own[1].state \notin
              {"COMPLETED", "FAILED", "ERROR", "CANCELLED"}) =>
            /\ pc' = "sleep"
            /\ result' = NoResult
            /\ last' = own[1].state

C29_OnlyRequestedDataset == [][C29_Step]_vars

\* the other dataset failed and the requested one is still running: the
\* call sleeps and goes on
C29_Witness ==
  /\ engine = "Datasets.wait_until_complete"
  /\ pc = "sleep"
  /\ Len(dds) = 2
  /\ dds[1].id = OtherId
  /\ dds[1].state = "CANCELLED"
  /\ dds[2].id = TargetId
  /\ dds[2].state = "RUNNING"
  /\ result = NoResult

\* the other dataset, listed first, is in ERROR; the call returns the
\* requested one, which is COMPLETED
C29_WitnessReturned ==
  /\ engine = "Datasets.wait_until_complete"
  /\ pc = "done"
  /\ Len(dds) = 2
  /\ dds[1].id = OtherId
  /\ dds[1].state = "ERROR"
  /\ result.kind = "returned"
  /\ result.record[1].id = TargetId


(***************************************************************************)
(* C30: run of every dataset builder validates before anything is sent: a  *)
(* builder with empty input_dataset_ids, an empty dataset_name, an empty   *)
(* condition_column or a comparison that is not a pair raises a validation *)
(* error and never reaches datasets.create, and a run sends at most one    *)
(* POST /datasets.  Stated for the PairwiseComparisonDataset of            *)
(* models.dataset_builders and for the one of utils.builders.              *)
(***************************************************************************)
C30_Malformed(b) ==
  \/ b.input_dataset_ids = <<>>
  \/ b.dataset_name = ""
  \/ b.condition_column = ""
  \/ \E k \in 1..Len(b.condition_comparisons) : Len(b.condition_comparisons[k]) # 2

C30_RunValidatesFirst ==
  /\ engine \in BuilderCalls => Len(log) <= 1
  /\ (engine \in {ModelsPairwise, UtilsPairwise} /\ C30_Malformed(args)) =>
       /\ log = <<>>
       /\ pc = "done" => (result.kind = "raised" /\ result.error = "ValueError")

====
